---- MODULE Spec2Model ----
(***************************************************************************)
(* Server lifecycle and container supervision of the Wings daemon          *)
(* (src/wings.js; src/unnamed/part_000 is a second revision of the same    *)
(* file and is used for the operations wings.js lacks).                    *)
(*                                                                         *)
(* Every request handler is an async function.  It runs atomically from    *)
(* one `await` to the next; the effect of the awaited engine / filesystem  *)
(* call takes place when the call is issued and the handler resumes in a   *)
(* later step, so other handlers, timers and the engine itself interleave  *)
(* at every `await`.                                                       *)
(***************************************************************************)
EXTENDS Integers, Sequences, FiniteSets, TLC

\* ---------------------------------------------------------------- bounds
MaxRequests     == 2      \* lifecycle requests issued in one behaviour of Spec
MaxRaceRequests == 3      \* start / stop requests issued in one behaviour of SpecStartStop

\* ------------------------------------------------------------- universes
Ids      == {"s1"}
Ghosts   == {"g1", "g2"}             \* ids that have no config document at all
Reqs     == 1..(IF MaxRequests > MaxRaceRequests THEN MaxRequests ELSE MaxRaceRequests)
Cids     == Reqs                      \* every request creates at most one runtime container
NoC      == 0
NoName   == <<>>

\* Instance configs on disk (configs/<id>.json), by the egg they carry:
\*   "none"   no config document (loadServerConfig throws)
\*   "noegg"  a document whose egg cannot be resolved (config.egg undefined)
\*   "script" egg with scripts.installation and config.stop
\*   "plain"  egg without installation script, with config.files, no config.stop
Configs  == {"none", "noegg", "script", "plain"}

HasEgg(cfg)    == cfg \in {"script", "plain", "signal"}
HasScript(cfg) == cfg = "script"
HasFiles(cfg)  == cfg = "plain"
\* config.stop of the config's egg ("" when it declares none): a console
\* command, or `^C` as the "signal" kind's egg has it
StopCommand(cfg) ==
  CASE cfg = "script" -> "stop"
    [] cfg = "signal" -> "^C"
    [] OTHER          -> ""
HasStop(cfg)   == StopCommand(cfg) # ""
\* the egg declares config.startup.done, the line its server prints when ready
HasSentinel(cfg) == cfg = "script"

VARIABLES
  containers,   \* this.containers : serverId -> container handle (NoC = no entry)
  serverStats,  \* this.serverStats: serverId -> TRUE iff a sample is cached
  engine,       \* the container engine: cid -> [name, sid, st]
  nextCid,      \* next container id the engine hands out
  configs,      \* configs/<id>.json
  installSh,    \* servers/<id>/install.sh exists
  reqs,         \* request handlers: slot -> activation record
  timers,       \* pending setTimeout callbacks that publish a status
  published,    \* event-bus room of each id: the server-status events, in order
  recon,        \* checkContainerStatus activation
  ticker,       \* stats ticker activation
  limit,        \* number of requests the behaviour may issue
  overlap,      \* the control plane may issue a request while one is in flight
  fileOp,       \* the last File Service request: its paths and its outcome
  serverLog,    \* event-bus room of each id: the kinds of server-log published
  sweep,        \* cleanupOrphanedContainers activation: the listed containers left
  shutdown,     \* the SIGTERM handler: its position in this.containers.entries()
  cmd,          \* the last send-command request: its path and its outcome
  docs,         \* configs/<id>.json: the document written by saveServerConfig
  serverConfigs,\* this.serverConfigs: serverId -> config
  dirs,         \* servers/<id> exists
  eggs,         \* this.eggs: egg id -> descriptor
  eggFiles,     \* eggs/<id>.json
  admin,        \* the config / egg request handler: its activation record
  probe,        \* input and result of the helper function under examination
  logs,         \* the logs directory: its entries, in readdir order
  retention,    \* cleanupOldLogs activation: the entry and file it is at
  stdin,        \* what has been written to /proc/1/fd/0 of each id's container
  stream        \* the log stream of a container: its chunks and what became of them

vars == <<containers, serverStats, engine, nextCid, configs, installSh,
          reqs, timers, published, recon, ticker, limit, overlap, fileOp, serverLog,
          sweep, shutdown, cmd, docs, serverConfigs, dirs, eggs, eggFiles, admin,
          probe, logs, retention, stdin, stream>>

\* the config and egg services and the helper functions, which the lifecycle
\* handlers leave alone (but for the instance directory and the config kind)
serviceVars == <<docs, serverConfigs, eggs, eggFiles, admin, probe, logs, retention,
                 stream>>

\* the same and the containers' standard input, for the handlers that run no
\* command in a container
quietVars == <<serviceVars, stdin>>

\* the state of the lifecycle supervisor, which the File Service leaves alone
lifecycleVars == <<containers, serverStats, engine, nextCid, configs, installSh,
                   reqs, timers, published, recon, ticker, limit, overlap,
                   serverLog, sweep, shutdown, cmd>>

\* code: exit status of the install container (NoExit while it has not exited);
\* ferr: a declared config file could not be written; res: the HTTP response;
\* at: the instance's state (its last published status) when the request arrived.
NoExit  == 0 - 1
IdleReq == [op |-> "-", id |-> "s1", pc |-> "idle", c |-> NoC, ok |-> TRUE,
            cfg |-> "-", code |-> NoExit, ferr |-> FALSE, res |-> "-", at |-> "-"]

NoContainer == [name |-> NoName, sid |-> "-", st |-> "absent"]

\* no orphan sweep under way; the daemon process before any SIGTERM (passed:
\* the registry entries its handler's iterator has gone past); no command sent
NoSweep  == [pc |-> "idle", list |-> <<>>]
DaemonUp == [pc |-> "up", c |-> NoC, passed |-> {}]
NoCmd    == [path |-> "-", id |-> "s1", pc |-> "idle", c |-> NoC, res |-> "-",
             running |-> FALSE, ran |-> FALSE]

\* ------------------------------------------------------- configs and eggs
\* An egg descriptor, as far as the handlers look at it: its uuid, whether
\* it has a name and a docker image, and its revision (rev counts the saves
\* of that uuid, to tell a later descriptor from an earlier one).
EggIds      == {"script", "plain", "other"}
DefaultEggs == {"script", "plain"}        \* written by createDefaultEggs
NoEgg       == [uuid |-> "-", name |-> FALSE, image |-> FALSE, rev |-> 0]
DefaultEgg(e) == [uuid |-> e, name |-> TRUE, image |-> TRUE, rev |-> 1]
MaxRev      == 2                          \* saves of one egg uuid

\* the port range of validateServerConfig
MinPort == 1024
MaxPort == 65535
Ports   == {MinPort - 1, MinPort, MaxPort, MaxPort + 1}

\* An instance config: eggId ("-" when the field is missing), the embedded
\* egg (NoEgg when the field is missing), the port, whether plan has ram, cpu
\* and disk, whether every required variable of the egg has a value.
NoDoc == [eggId |-> "-", egg |-> NoEgg, port |-> 0, plan |-> FALSE, vars |-> FALSE,
          exists |-> FALSE]
Doc(eggId, egg, port, plan, variables) ==
  [eggId |-> eggId, egg |-> egg, port |-> port, plan |-> plan, vars |-> variables,
   exists |-> TRUE]

\* a document of each kind of Configs, as createServerConfig leaves it (the
\* egg embedded); the "noegg" one names an egg that is not there, embeds none
DocOf(kind) ==
  CASE kind = "none"  -> NoDoc
    [] kind = "noegg" -> Doc("other", NoEgg, MinPort, TRUE, TRUE)
    [] OTHER          -> Doc(kind, DefaultEgg(kind), MinPort, TRUE, TRUE)

\* no config or egg request yet; no helper function applied
NoAdmin == [op |-> "-", id |-> "-", cfg |-> NoDoc, egg |-> NoEgg, pc |-> "idle",
            ok |-> TRUE, res |-> "-", before |-> <<>>]
NoProbe == [fn |-> "-"]
NoRetention == [pc |-> "idle", s |-> 1, f |-> 1]
\* a log stream that has delivered nothing: n chunks delivered so far, `out`
\* the records published, `file` the lines of the daily log file, `saving`
\* how far the saveLogToFile call of each chunk is
MaxChunks == 3
NoStream  == [n |-> 0, out |-> <<>>, file |-> <<>>,
              saving |-> [k \in 1..MaxChunks |-> "-"]]
\* the stats ticker between two ticks (seen: the registry entries its loop
\* has visited in this tick, in order; failed: those whose sample was an error)
NoTick == [pc |-> "idle", id |-> "s1", ok |-> TRUE, seen |-> <<>>, failed |-> {}]

\* ------------------------------------------------------------- path strings
\* A file name is a sequence of characters, a path a sequence of file names.
Up       == <<".", ".">>
S1       == <<"s", "1">>
S10      == <<"s", "1", "0">>
DirIds   == {S1, S10}                 \* instance ids that own a directory
Segments == {Up, <<"x">>, S10}
MaxSegs  == 3                         \* segments of a requested path
RelPaths == UNION {[1..n -> Segments] : n \in 0..MaxSegs}

\* __dirname of the daemon
Dirname  == << <<"d">> >>

NoFileOp == [op |-> "-", id |-> S1, paths |-> <<>>, res |-> "-"]

\* ------------------------------------------------------------------ Init
\* The daemon after construction, before any request; `kinds`: the kinds of
\* config document the instance may have on disk.
ConstructedFor(ids, kinds, requests, overlapping) ==
  /\ containers  = [i \in ids |-> NoC]
  /\ serverStats = [i \in ids |-> FALSE]
  /\ engine      = [c \in Cids |-> NoContainer]
  /\ nextCid     = 1
  /\ configs     \in [ids -> kinds]
  /\ installSh   = [i \in ids |-> FALSE]
  /\ reqs        = [r \in Reqs |-> IdleReq]
  /\ timers      = {}
  /\ published   = [i \in ids |-> <<>>]
  /\ recon       = [pc |-> "idle", id |-> "s1", obs |-> "-"]
  /\ ticker      = NoTick
  /\ limit       = requests
  /\ overlap     = overlapping
  /\ fileOp      = NoFileOp
  /\ serverLog   = [i \in ids |-> {}]
  /\ sweep       = NoSweep
  /\ shutdown    = DaemonUp
  /\ cmd         = NoCmd
  /\ docs        = [i \in ids |-> DocOf(configs[i])]
  /\ serverConfigs = [i \in ids |-> NoDoc]
  /\ dirs        = [i \in ids |-> configs[i] # "none"]
  /\ eggs        = [e \in EggIds |-> IF e \in DefaultEggs THEN DefaultEgg(e) ELSE NoEgg]
  /\ eggFiles    = eggs
  /\ admin       = NoAdmin
  /\ retention   = NoRetention
  /\ stdin       = [i \in ids |-> {}]
  /\ stream      = NoStream

\* the daemon that serves the instances of Ids
Constructed(kinds, requests, overlapping) ==
  ConstructedFor(Ids, kinds, requests, overlapping)

InitWith(kinds, requests, overlapping) ==
  Constructed(kinds, requests, overlapping) /\ probe = NoProbe /\ logs = <<>>

Init == InitWith(Configs, MaxRequests, TRUE)

\* --------------------------------------------------------------- helpers
\* Server Runtime State: the last server-status published for the instance;
\* before any publication a configured instance is offline, any other absent.
State(serverId) ==
  IF published[serverId] # <<>>
    THEN published[serverId][Len(published[serverId])].status
    ELSE IF configs[serverId] = "none" THEN "absent" ELSE "offline"

\* this.io.to(serverId).emit('server-status', { status })
Emit(log, serverId, status, by) ==
  [log EXCEPT ![serverId] = Append(@, [status |-> status, by |-> by])]

\* this.io.to(serverId).emit('server-log', ...): the kinds of line kept are
\*   "done"        a line of the container that contains the egg's sentinel
\*   "unexpected"  the reconciler's warning `Servidor parou inesperadamente`
\*   "command"     the echo `> ${command}` of executeCommand
LogEmit(log, serverId, kind) == [log EXCEPT ![serverId] = @ \cup {kind}]

\* name: `pyro-server-${serverId}` in the container config of createContainer
ContainerNameUnnamed(serverId) == NoName
ContainerName(serverId) == <<"pyro-server-", serverId>>

\* The engine refuses to create a container whose name is in use (HTTP 409);
\* a container created without a name gets a fresh generated one.
NameInUse(name) ==
  /\ name # NoName
  /\ \E c \in Cids : engine[c].st # "absent" /\ engine[c].name = name

\* loadServerConfig(serverId): the document read at the moment of the call
loadServerConfig(serverId) == configs[serverId]

\* A request slot is taken in order, when the request arrives.
Fresh(r) ==
  /\ reqs[r].pc = "idle"
  /\ r <= limit
  /\ overlap \/ \A q \in Reqs : reqs[q].pc \in {"idle", "done"}
  /\ \A q \in Reqs : q < r => reqs[q].pc # "idle"

\* The activation record of a request that has just arrived.
Arrive(op, serverId) ==
  [IdleReq EXCEPT !.op = op, !.id = serverId, !.at = State(serverId)]

\* res.json(...) / res.status(n).json(...): the handler has returned
Respond(q, res) ==
  [q EXCEPT !.pc = "done", !.res = res, !.c = NoC, !.cfg = "-", !.ok = TRUE]

\* the handler is suspended at an await; ok is the outcome of the awaited call
Await(q, pc, ok) == [q EXCEPT !.pc = pc, !.ok = ok]

Set(r, q) == reqs' = [reqs EXCEPT ![r] = q]

\* setTimeout(() => emit('server-status', ...), ms)
Timer(kind, serverId, by) == [kind |-> kind, id |-> serverId, by |-> by]

\* this.containers.delete(serverId); this.serverStats.delete(serverId)
Deregister(serverId) ==
  /\ containers'  = [containers  EXCEPT ![serverId] = NoC]
  /\ serverStats' = [serverStats EXCEPT ![serverId] = FALSE]
  /\ shutdown'    = [shutdown EXCEPT !.passed = @ \ {serverId}]

\* ------------------------------------------------------------ startServer
\* startServer without its containers.has() test
StartServer_CheckNoGuard(r, q) ==
  /\ Set(r, [Await(q, "st1", TRUE) EXCEPT !.cfg = loadServerConfig(q.id)])
  /\ UNCHANGED <<containers, serverStats, engine, nextCid, configs, installSh,
                 timers, published, recon, ticker, limit, overlap, fileOp, serverLog,
                 sweep, shutdown, cmd,
                 dirs, quietVars>>

\* startServer up to `await this.loadServerConfig(serverId)`
StartServer_Check(r, q) ==
  LET serverId == q.id IN
  /\ IF containers[serverId] # NoC
       THEN Set(r, Respond(q, "400"))
       ELSE Set(r, [Await(q, "st1", TRUE) EXCEPT !.cfg = loadServerConfig(serverId)])
  /\ UNCHANGED <<containers, serverStats, engine, nextCid, configs, installSh,
                 timers, published, recon, ticker, limit, overlap, fileOp, serverLog,
                 sweep, shutdown, cmd,
                 dirs, quietVars>>

\* docker.createContainer(containerConfig): fails when the name is taken
CreateContainer(r, q) ==
  LET name == ContainerName(q.id) IN
  IF NameInUse(name)
    THEN /\ Set(r, Await(q, "st3", FALSE))
         /\ UNCHANGED <<engine, nextCid>>
    ELSE /\ engine' = [engine EXCEPT ![nextCid] =
                         [name |-> name, sid |-> q.id, st |-> "created"]]
         /\ nextCid' = nextCid + 1
         /\ Set(r, [Await(q, "st3", TRUE) EXCEPT !.c = nextCid])

\* the catch block of startServer
StartServer_Catch(r, q) ==
  /\ published' = Emit(published, q.id, "error", r)
  /\ Set(r, Respond(q, "500"))

\* config loaded; createContainer: image inspect / pull, docker.createContainer
StartServer_Create(r) ==
  LET q == reqs[r] IN
  /\ q.pc = "st1"
  /\ CASE q.cfg = "none" ->
            /\ StartServer_Catch(r, q)
            /\ UNCHANGED <<engine, nextCid>>
       [] q.cfg = "noegg" ->
            /\ Set(r, Respond(q, "400"))
            /\ UNCHANGED <<engine, nextCid, published>>
       [] OTHER ->
            \E pulled \in BOOLEAN :
              IF pulled
                THEN CreateContainer(r, q) /\ UNCHANGED published
                ELSE StartServer_Catch(r, q) /\ UNCHANGED <<engine, nextCid>>
  /\ UNCHANGED <<containers, serverStats, configs, installSh, timers, recon, ticker, limit, overlap, fileOp, serverLog,
                 sweep, shutdown, cmd,
                 dirs, quietVars>>

\* container created; `await container.start()`
StartServer_Start(r) ==
  LET q == reqs[r] IN
  /\ q.pc = "st3"
  /\ IF ~q.ok
       THEN StartServer_Catch(r, q) /\ UNCHANGED engine
       ELSE \E started \in BOOLEAN :
              IF started /\ engine[q.c].st = "created"
                THEN /\ engine' = [engine EXCEPT ![q.c].st = "running"]
                     /\ Set(r, Await(q, "st4", TRUE))
                     /\ UNCHANGED published
                ELSE /\ Set(r, Await(q, "st4", FALSE))
                     /\ UNCHANGED <<engine, published>>
  /\ UNCHANGED <<containers, serverStats, nextCid, configs, installSh, timers,
                 recon, ticker, limit, overlap, fileOp, serverLog,
                 sweep, shutdown, cmd,
                 dirs, quietVars>>

\* container started: register it, publish `starting`, arm the online timer
StartServer_Register(r) ==
  LET q == reqs[r] IN
  /\ q.pc = "st4"
  /\ IF ~q.ok
       THEN /\ StartServer_Catch(r, q)
            /\ UNCHANGED <<containers, timers>>
       ELSE /\ containers' = [containers EXCEPT ![q.id] = q.c]
            /\ published' = Emit(published, q.id, "starting", r)
            /\ timers' = timers \cup {Timer("online", q.id, r)}
            /\ Set(r, Respond(q, "ok"))
  /\ UNCHANGED <<serverStats, engine, nextCid, configs, installSh, recon, ticker, limit, overlap, fileOp, serverLog,
                 sweep, shutdown, cmd,
                 dirs, quietVars>>

StartRequest(r, serverId) ==
  /\ Fresh(r)
  /\ StartServer_Check(r, Arrive("start", serverId))

\* ------------------------------------------------- engine calls on a handle
\* container.stop({ t: 10 }): rejected unless the container is running
\* (dockerode maps 304 `container already stopped` and 404 to an error)
EngineStop(r, q, pc) ==
  IF engine[q.c].st = "running"
    THEN /\ engine' = [engine EXCEPT ![q.c].st = "stopped"]
         /\ Set(r, Await(q, pc, TRUE))
    ELSE /\ UNCHANGED engine
         /\ Set(r, Await(q, pc, FALSE))

\* container.kill(): rejected (409) unless the container is running
EngineKill(r, q, pc) == EngineStop(r, q, pc)

\* container.remove(): rejected for a running (409) or unknown (404) container
EngineRemove(r, q, pc) ==
  IF engine[q.c].st \in {"created", "exited", "stopped"}
    THEN /\ engine' = [engine EXCEPT ![q.c] = NoContainer]
         /\ Set(r, Await(q, pc, TRUE))
    ELSE /\ UNCHANGED engine
         /\ Set(r, Await(q, pc, FALSE))

\* executeCommandInContainer(container, command): `echo "<command>"` into
\* /proc/1/fd/0, run by the engine when the container is running
executeCommandInContainer(serverId, c, command) ==
  stdin' = IF engine[c].st = "running"
             THEN [stdin EXCEPT ![serverId] = @ \cup {command}]
             ELSE stdin

\* ------------------------------------------------------------- stopServer
\* stopServer publishing `stopping` before its test of the registry
StopServer_CheckAfterEmit(r, q) ==
  LET serverId == q.id IN
  /\ published' = Emit(published, serverId, "stopping", r)
  /\ IF containers[serverId] = NoC
       THEN Set(r, Respond(q, "400"))
       ELSE Set(r, [Await(q, "sp1", TRUE) EXCEPT
                      !.c = containers[serverId],
                      !.cfg = loadServerConfig(serverId)])
  /\ UNCHANGED <<containers, serverStats, engine, nextCid, configs, installSh,
                 timers, recon, ticker, limit, overlap, fileOp, serverLog,
                 sweep, shutdown, cmd,
                 dirs, quietVars>>

\* stopServer up to `await this.loadServerConfig(serverId)`.  restartServer
\* and reinstallServer call it with res = { json } right after their own
\* containers.has() test, so the not-running branch is the stop route's only.
StopServer_Check(r, q) ==
  LET serverId == q.id IN
  /\ IF containers[serverId] = NoC
       THEN /\ Set(r, Respond(q, "400"))
            /\ UNCHANGED published
       ELSE /\ published' = Emit(published, serverId, "stopping", r)
            /\ Set(r, [Await(q, "sp1", TRUE) EXCEPT
                         !.c = containers[serverId],
                         !.cfg = loadServerConfig(serverId)])
  /\ UNCHANGED <<containers, serverStats, engine, nextCid, configs, installSh,
                 timers, recon, ticker, limit, overlap, fileOp, serverLog,
                 sweep, shutdown, cmd,
                 dirs, quietVars>>

\* the catch block of stopServer: res.status(500).  With the stub response of
\* restartServer / reinstallServer, res.status is not a function: the TypeError
\* leaves stopServer and lands in the caller's catch, which answers 500.
StopServer_Catch(r, q) == Set(r, Respond(q, "500"))

\* stopServer going to engine stop without sending the egg's stop command
StopServer_GracefulNoCommand(r) ==
  LET q == reqs[r] IN
  /\ q.pc = "sp1"
  /\ IF q.cfg = "none" THEN StopServer_Catch(r, q) /\ UNCHANGED engine
                        ELSE EngineStop(r, q, "sp4")
  /\ UNCHANGED <<containers, serverStats, nextCid, configs, installSh, timers,
                 published, recon, ticker, limit, overlap, fileOp, serverLog,
                 sweep, shutdown, cmd,
                 dirs, quietVars>>

\* config loaded: send the egg's stop command (executeCommandInContainer and
\* the 10 s wait; a failed exec is only logged), or go straight to engine stop
StopServer_Graceful(r) ==
  LET q == reqs[r] IN
  /\ q.pc = "sp1"
  /\ CASE q.cfg = "none" ->
            StopServer_Catch(r, q) /\ UNCHANGED <<engine, stdin>>
       [] HasStop(q.cfg) ->
            /\ executeCommandInContainer(q.id, q.c, StopCommand(q.cfg))
            /\ Set(r, Await(q, "sp2", engine[q.c].st = "running"))
            /\ UNCHANGED engine
       [] OTHER -> EngineStop(r, q, "sp4") /\ UNCHANGED stdin
  /\ UNCHANGED <<containers, serverStats, nextCid, configs, installSh, timers,
                 published, recon, ticker, limit, overlap, fileOp, serverLog,
                 sweep, shutdown, cmd,
                 dirs, serviceVars>>

\* after the stop command and its wait: `await container.stop({ t: 10 })`
StopServer_Stop(r) ==
  LET q == reqs[r] IN
  /\ q.pc = "sp2"
  /\ EngineStop(r, q, "sp4")
  /\ UNCHANGED <<containers, serverStats, nextCid, configs, installSh, timers,
                 published, recon, ticker, limit, overlap, fileOp, serverLog,
                 sweep, shutdown, cmd,
                 dirs, quietVars>>

\* engine stop returned: `await container.remove()`
StopServer_Remove(r) ==
  LET q == reqs[r] IN
  /\ q.pc = "sp4"
  /\ IF q.ok THEN EngineRemove(r, q, "sp5")
             ELSE StopServer_Catch(r, q) /\ UNCHANGED engine
  /\ UNCHANGED <<containers, serverStats, nextCid, configs, installSh, timers,
                 published, recon, ticker, limit, overlap, fileOp, serverLog,
                 sweep, shutdown, cmd,
                 dirs, quietVars>>

\* removed: deregister, publish `offline`, answer (or return to the caller)
StopServer_Finish(r) ==
  LET q == reqs[r] IN
  /\ q.pc = "sp5"
  /\ IF q.ok
       THEN /\ Deregister(q.id)
            /\ published' = Emit(published, q.id, "offline", r)
            /\ Set(r, CASE q.op = "restart"   -> [Await(q, "r_wait", TRUE) EXCEPT !.c = NoC, !.cfg = "-"]
                        [] q.op = "reinstall" -> [Await(q, "ri_wait", TRUE) EXCEPT !.c = NoC, !.cfg = "-"]
                        [] OTHER              -> Respond(q, "ok"))
       ELSE /\ StopServer_Catch(r, q)
            /\ UNCHANGED <<containers, serverStats, published, shutdown>>
  /\ UNCHANGED <<engine, nextCid, configs, installSh, timers, recon, ticker, limit, overlap, fileOp, serverLog,
                 sweep, cmd,
                 dirs, quietVars>>

StopRequest(r, serverId) ==
  /\ Fresh(r)
  /\ StopServer_Check(r, Arrive("stop", serverId))

\* ------------------------------------------------------------- killServer
KillRequest(r, serverId) ==
  LET q == Arrive("kill", serverId) IN
  /\ Fresh(r)
  /\ IF containers[serverId] = NoC
       THEN Set(r, Respond(q, "400")) /\ UNCHANGED engine
       ELSE EngineKill(r, [q EXCEPT !.c = containers[serverId]], "k1")
  /\ UNCHANGED <<containers, serverStats, nextCid, configs, installSh, timers,
                 published, recon, ticker, limit, overlap, fileOp, serverLog,
                 sweep, shutdown, cmd,
                 dirs, quietVars>>

KillServer_Remove(r) ==
  LET q == reqs[r] IN
  /\ q.pc = "k1"
  /\ IF q.ok THEN EngineRemove(r, q, "k2")
             ELSE Set(r, Respond(q, "500")) /\ UNCHANGED engine
  /\ UNCHANGED <<containers, serverStats, nextCid, configs, installSh, timers,
                 published, recon, ticker, limit, overlap, fileOp, serverLog,
                 sweep, shutdown, cmd,
                 dirs, quietVars>>

KillServer_Finish(r) ==
  LET q == reqs[r] IN
  /\ q.pc = "k2"
  /\ IF q.ok
       THEN /\ Deregister(q.id)
            /\ published' = Emit(published, q.id, "offline", r)
            /\ Set(r, Respond(q, "ok"))
       ELSE /\ Set(r, Respond(q, "500"))
            /\ UNCHANGED <<containers, serverStats, published, shutdown>>
  /\ UNCHANGED <<engine, nextCid, configs, installSh, timers, recon, ticker, limit, overlap, fileOp, serverLog,
                 sweep, cmd,
                 dirs, quietVars>>

\* ---------------------------------------------------------- restartServer
\* restartServer going to startServer without stopping first
RestartRequestNoStop(r, serverId) ==
  /\ Fresh(r)
  /\ StartServer_Check(r, Arrive("restart", serverId))

RestartRequest(r, serverId) ==
  /\ Fresh(r)
  /\ IF containers[serverId] # NoC
       THEN StopServer_Check(r, Arrive("restart", serverId))
       ELSE StartServer_Check(r, Arrive("restart", serverId))

\* after the 3 s wait: `await this.startServer(req, res)`
RestartServer_Start(r) ==
  /\ reqs[r].pc = "r_wait"
  /\ StartServer_Check(r, reqs[r])

\* ---------------------------------------------------------- installServer
\* installServer up to `await this.loadServerConfig(serverId)`
InstallServer_Load(r, q) ==
  /\ Set(r, [Await(q, "i1", TRUE) EXCEPT !.cfg = loadServerConfig(q.id)])
  /\ UNCHANGED <<containers, serverStats, engine, nextCid, configs, installSh,
                 timers, published, recon, ticker, limit, overlap, fileOp, serverLog,
                 sweep, shutdown, cmd,
                 dirs, quietVars>>

\* the catch block of installServer
InstallServer_Catch(r, q, log) ==
  /\ published' = Emit(log, q.id, "install_failed", r)
  /\ Set(r, Respond(q, "500"))

\* installServer answering success without arming its `offline` timer
InstallServer_DoneNoTimer(r, q) ==
  /\ UNCHANGED timers
  /\ Set(r, Respond(q, "ok"))

\* "Marcar como instalado apos delay": setTimeout(emit offline, 10000); res.json
InstallServer_Done(r, q) ==
  /\ timers' = timers \cup {Timer("offline", q.id, r)}
  /\ Set(r, Respond(q, "ok"))

\* config loaded: publish `installing`; with an installation script write
\* install.sh (runInstallationScript), without one materialize config.files
\* (createEggFiles logs a failed write and carries on) and finish
InstallServer_Begin(r) ==
  LET q == reqs[r]
      log == Emit(published, q.id, "installing", r) IN
  /\ q.pc = "i1"
  /\ CASE q.cfg = "none" ->
            /\ InstallServer_Catch(r, q, published)
            /\ UNCHANGED <<installSh, timers>>
       [] q.cfg = "noegg" ->
            /\ InstallServer_Catch(r, q, log)
            /\ UNCHANGED <<installSh, timers>>
       [] HasScript(q.cfg) ->
            /\ published' = log
            /\ installSh' = [installSh EXCEPT ![q.id] = TRUE]
            /\ Set(r, Await(q, "i2", TRUE))
            /\ UNCHANGED timers
       [] OTHER ->
            \E werr \in BOOLEAN :
              /\ HasFiles(q.cfg) \/ ~werr
              /\ published' = log
              /\ InstallServer_Done(r, [q EXCEPT !.ferr = werr])
              /\ UNCHANGED installSh
  /\ UNCHANGED <<containers, serverStats, engine, nextCid, configs, recon, ticker, limit, overlap, fileOp, serverLog,
                 sweep, shutdown, cmd,
                 dirs, quietVars>>

\* runInstallationScript: image inspect / docker.pull of the install image
InstallServer_Pull(r) ==
  LET q == reqs[r] IN
  /\ q.pc = "i2"
  /\ \E pulled \in BOOLEAN :
       IF pulled THEN Set(r, Await(q, "i3", TRUE)) /\ UNCHANGED published
                 ELSE InstallServer_Catch(r, q, published)
  /\ UNCHANGED <<containers, serverStats, engine, nextCid, configs, installSh,
                 timers, recon, ticker, limit, overlap, fileOp, serverLog,
                 sweep, shutdown, cmd,
                 dirs, quietVars>>

\* runInstallationScript: createContainer, logs, start of the install
\* container (an unnamed AutoRemove container), then `await container.wait()`
InstallServer_Launch(r) ==
  LET q == reqs[r] IN
  /\ q.pc = "i3"
  /\ \E launched \in BOOLEAN :
       IF launched THEN Set(r, Await(q, "i_wait", TRUE)) /\ UNCHANGED published
                   ELSE InstallServer_Catch(r, q, published)
  /\ UNCHANGED <<containers, serverStats, engine, nextCid, configs, installSh,
                 timers, recon, ticker, limit, overlap, fileOp, serverLog,
                 sweep, shutdown, cmd,
                 dirs, quietVars>>

\* the install script ends: the install container exits with a status code
InstallContainerExit(r) ==
  /\ reqs[r].pc = "i_wait"
  /\ reqs[r].code = NoExit
  /\ \E code \in {0, 1} : Set(r, [reqs[r] EXCEPT !.code = code])
  /\ UNCHANGED <<containers, serverStats, engine, nextCid, configs, installSh,
                 timers, published, recon, ticker, limit, overlap, fileOp, serverLog,
                 sweep, shutdown, cmd,
                 dirs, quietVars>>

\* container.wait() returned: fs.unlink(install.sh), then the StatusCode test
InstallServer_Exit(r) ==
  LET q == reqs[r] IN
  /\ q.pc = "i_wait"
  /\ q.code # NoExit
  /\ IF installSh[q.id] /\ q.code = 0
       THEN InstallServer_Done(r, q) /\ UNCHANGED published
       ELSE InstallServer_Catch(r, q, published) /\ UNCHANGED timers
  /\ installSh' = [installSh EXCEPT ![q.id] = FALSE]
  /\ UNCHANGED <<containers, serverStats, engine, nextCid, configs, recon, ticker, limit, overlap, fileOp, serverLog,
                 sweep, shutdown, cmd,
                 dirs, quietVars>>

InstallRequest(r, serverId) ==
  /\ Fresh(r)
  /\ InstallServer_Load(r, Arrive("install", serverId))

\* -------------------------------------------------------- reinstallServer
\* `await fs.rmdir(serverPath, { recursive: true })`: the directory goes, and
\* install.sh with it.  For a directory that is not there the call rejects on
\* newer Node releases and resolves on older ones; the rejection is caught
\* and skips the mkdir.
ReinstallServer_Clear(r, q) ==
  /\ installSh' = [installSh EXCEPT ![q.id] = FALSE]
  /\ \E thrown \in BOOLEAN :
       IF dirs[q.id] \/ ~thrown
         THEN /\ dirs' = [dirs EXCEPT ![q.id] = FALSE]
              /\ Set(r, Await(q, "ri_mkdir", TRUE))
         ELSE /\ UNCHANGED dirs
              /\ Set(r, Await(q, "ri_install", TRUE))
  /\ UNCHANGED <<containers, serverStats, engine, nextCid, configs, timers,
                 published, recon, ticker, limit, overlap, fileOp, serverLog,
                 sweep, shutdown, cmd, quietVars>>

\* directory removed: `await fs.mkdir(serverPath, { recursive: true })`
ReinstallServer_Mkdir(r) ==
  /\ reqs[r].pc = "ri_mkdir"
  /\ dirs' = [dirs EXCEPT ![reqs[r].id] = TRUE]
  /\ Set(r, Await(reqs[r], "ri_install", TRUE))
  /\ UNCHANGED <<containers, serverStats, engine, nextCid, configs, installSh,
                 timers, published, recon, ticker, limit, overlap, fileOp,
                 serverLog, sweep, shutdown, cmd, quietVars>>

ReinstallRequest(r, serverId) ==
  /\ Fresh(r)
  /\ IF containers[serverId] # NoC
       THEN StopServer_Check(r, Arrive("reinstall", serverId))
       ELSE ReinstallServer_Clear(r, Arrive("reinstall", serverId))

\* after the stop and the 2 s wait
ReinstallServer_AfterStop(r) ==
  /\ reqs[r].pc = "ri_wait"
  /\ ReinstallServer_Clear(r, reqs[r])

\* directory recreated: `await this.installServer(req, res)`
ReinstallServer_Install(r) ==
  /\ reqs[r].pc = "ri_install"
  /\ InstallServer_Load(r, reqs[r])

\* ------------------------------------------------------------------ timers
\* the callback of a pending setTimeout runs
TimerFire(t) ==
  /\ t \in timers
  /\ timers' = timers \ {t}
  /\ published' = Emit(published, t.id, t.kind, t.by)
  /\ UNCHANGED <<containers, serverStats, engine, nextCid, configs, installSh,
                 reqs, recon, ticker, limit, overlap, fileOp, serverLog,
                 sweep, shutdown, cmd,
                 dirs, quietVars>>

\* ---------------------------------------------------- checkContainerStatus
\* one iteration of the loop up to `await container.inspect()`
CheckContainerStatus_Inspect(serverId) ==
  LET c == containers[serverId] IN
  /\ recon.pc = "idle"
  /\ c # NoC
  /\ recon' = [pc |-> "inspected", id |-> serverId,
               obs |-> CASE engine[c].st = "running" -> "running"
                         [] engine[c].st = "absent"  -> "gone"
                         [] OTHER                    -> "stopped"]
  /\ UNCHANGED <<containers, serverStats, engine, nextCid, configs, installSh,
                 reqs, timers, published, ticker, limit, overlap, fileOp, serverLog,
                 sweep, shutdown, cmd,
                 dirs, quietVars>>

\* inspect returned: evict and publish `offline` unless State.Running
CheckContainerStatus_Evict ==
  /\ recon.pc = "inspected"
  /\ recon' = [pc |-> "idle", id |-> recon.id, obs |-> "-"]
  /\ IF recon.obs = "running"
       THEN UNCHANGED <<containers, serverStats, published, serverLog, shutdown>>
       ELSE /\ Deregister(recon.id)
            /\ published' = Emit(published, recon.id, "offline", 0)
            /\ serverLog' = IF recon.obs = "stopped"
                               THEN LogEmit(serverLog, recon.id, "unexpected")
                               ELSE serverLog
  /\ UNCHANGED <<engine, nextCid, configs, installSh, reqs, timers, ticker, limit,
                 overlap, fileOp, sweep, cmd,
                 dirs, quietVars>>

\* ------------------------------------------------------ startStatsMonitoring
\* the ids a sequence of them holds
Range(seq) == {seq[k] : k \in DOMAIN seq}

\* one iteration of the ticker's loop over this.containers.entries(), up to
\* `await container.stats({ stream: false })`: the engine has no sample of a
\* container it no longer knows
StatsTick_Sample(serverId) ==
  LET c == containers[serverId] IN
  /\ ticker.pc = "idle"
  /\ c # NoC
  /\ serverId \notin Range(ticker.seen)
  /\ ticker' = [ticker EXCEPT !.pc = "sampled", !.id = serverId,
                              !.ok = engine[c].st # "absent",
                              !.seen = Append(@, serverId)]
  /\ UNCHANGED <<containers, serverStats, engine, nextCid, configs, installSh,
                 reqs, timers, published, recon, limit, overlap, fileOp, serverLog,
                 sweep, shutdown, cmd,
                 dirs, quietVars>>

\* the ticker with its try / catch round the loop instead of inside it: an
\* error ends the tick
StatsTick_PublishOrAbort ==
  /\ ticker.pc = "sampled"
  /\ ticker' = IF ticker.ok THEN [ticker EXCEPT !.pc = "idle"] ELSE NoTick
  /\ serverStats' = IF ticker.ok THEN [serverStats EXCEPT ![ticker.id] = TRUE]
                                 ELSE serverStats
  /\ UNCHANGED <<containers, engine, nextCid, configs, installSh, reqs, timers,
                 published, recon, limit, overlap, fileOp, serverLog,
                 sweep, shutdown, cmd,
                 dirs, quietVars>>

\* stats returned: cache and publish the sample; the catch block swallows an
\* error and the loop goes on
StatsTick_Publish ==
  /\ ticker.pc = "sampled"
  /\ ticker' = [ticker EXCEPT !.pc = "idle", !.ok = TRUE,
                              !.failed = IF ticker.ok THEN @ ELSE @ \cup {ticker.id}]
  /\ serverStats' = IF ticker.ok THEN [serverStats EXCEPT ![ticker.id] = TRUE]
                                 ELSE serverStats
  /\ UNCHANGED <<containers, engine, nextCid, configs, installSh, reqs, timers,
                 published, recon, limit, overlap, fileOp, serverLog,
                 sweep, shutdown, cmd,
                 dirs, quietVars>>

\* the loop has been through every entry of the registry: the tick is over,
\* and setInterval begins the next one
StatsTick_End ==
  /\ ticker.pc = "idle"
  /\ ticker.seen # <<>>
  /\ \A i \in DOMAIN containers : containers[i] # NoC => i \in Range(ticker.seen)
  /\ ticker' = NoTick
  /\ UNCHANGED <<containers, serverStats, engine, nextCid, configs, installSh,
                 reqs, timers, published, recon, limit, overlap, fileOp, serverLog,
                 sweep, shutdown, cmd,
                 dirs, quietVars>>

\* ------------------------------------------------------------- environment
\* the server process of a running container ends by itself (it obeyed the
\* stop command, crashed, or its process was killed from outside the engine)
ContainerExit(c) ==
  /\ engine[c].st = "running"
  /\ engine' = [engine EXCEPT ![c].st = "exited"]
  /\ UNCHANGED <<containers, serverStats, nextCid, configs, installSh, reqs,
                 timers, published, recon, ticker, limit, overlap, fileOp, serverLog,
                 sweep, shutdown, cmd,
                 dirs, quietVars>>

\* a container is removed from outside the daemon (docker rm -f)
ContainerRemoved(c) ==
  /\ engine[c].st # "absent"
  /\ engine' = [engine EXCEPT ![c] = NoContainer]
  /\ UNCHANGED <<containers, serverStats, nextCid, configs, installSh, reqs,
                 timers, published, recon, ticker, limit, overlap, fileOp, serverLog,
                 sweep, shutdown, cmd,
                 dirs, quietVars>>

\* HostConfig.RestartPolicy { Name: 'unless-stopped' }: the engine starts a
\* container again that ended by itself; one stopped or killed through the
\* engine ("stopped") stays down
EngineRestart(c) ==
  /\ engine[c].st = "exited"
  /\ engine' = [engine EXCEPT ![c].st = "running"]
  /\ UNCHANGED <<containers, serverStats, nextCid, configs, installSh, reqs,
                 timers, published, recon, ticker, limit, overlap, fileOp, serverLog,
                 sweep, shutdown, cmd,
                 dirs, quietVars>>

\* ------------------------------------------------------ setupContainerLogging
\* logStream.on('data'): the running container prints the line that contains
\* its egg's startup.done sentinel; the handler publishes it as a server-log
ContainerLogsDone(c) ==
  LET serverId == engine[c].sid IN
  /\ engine[c].st = "running"
  /\ serverId \in Ids
  /\ containers[serverId] = c
  /\ HasSentinel(configs[serverId])
  /\ serverLog' = LogEmit(serverLog, serverId, "done")
  /\ UNCHANGED <<containers, serverStats, engine, nextCid, configs, installSh,
                 reqs, timers, published, recon, ticker, limit, overlap, fileOp,
                 sweep, shutdown, cmd,
                 dirs, quietVars>>

\* logStream.on('data'): the engine delivers the next chunk of the running
\* container's output; the handler publishes its record and calls
\* saveLogToFile without awaiting it, which runs up to `await fs.mkdir`
LogStream_Data(c) ==
  LET serverId == engine[c].sid
      k == stream.n + 1 IN
  /\ engine[c].st = "running"
  /\ serverId \in DOMAIN containers
  /\ containers[serverId] = c
  /\ k <= MaxChunks
  /\ stream' = [stream EXCEPT !.n = k, !.out = Append(@, k), !.saving[k] = "mkdir"]
  /\ UNCHANGED <<lifecycleVars, fileOp, dirs, docs, serverConfigs, eggs, eggFiles,
                 admin, probe, logs, retention, stdin>>

\* saveLogToFile of chunk k: mkdir answered, `await fs.appendFile`
SaveLogToFile_Mkdir(k) ==
  /\ stream.saving[k] = "mkdir"
  /\ stream' = [stream EXCEPT !.saving[k] = "append"]
  /\ UNCHANGED <<lifecycleVars, fileOp, dirs, docs, serverConfigs, eggs, eggFiles,
                 admin, probe, logs, retention, stdin>>

\* saveLogToFile of chunk k: the filesystem appends the line, or it fails
\* and the catch block logs the error
SaveLogToFile_Append(k) ==
  /\ stream.saving[k] = "append"
  /\ \E written \in BOOLEAN :
       stream' = [stream EXCEPT !.saving[k] = "done",
                                !.file = IF written THEN Append(@, k) ELSE @]
  /\ UNCHANGED <<lifecycleVars, fileOp, dirs, docs, serverConfigs, eggs, eggFiles,
                 admin, probe, logs, retention, stdin>>

\* One instance is started and its container prints lines.
InitLogStream == InitWith({"plain"}, MaxRequests, TRUE)

NextLogStream ==
  \/ \E r \in Reqs, i \in Ids : StartRequest(r, i)
  \/ \E r \in Reqs : StartServer_Create(r)
  \/ \E r \in Reqs : StartServer_Start(r)
  \/ \E r \in Reqs : StartServer_Register(r)
  \/ \E c \in Cids : LogStream_Data(c)
  \/ \E k \in 1..MaxChunks : SaveLogToFile_Mkdir(k)
  \/ \E k \in 1..MaxChunks : SaveLogToFile_Append(k)

SpecLogStream == InitLogStream /\ [][NextLogStream]_vars

\* -------------------------------------------------------------------- Next
Next ==
  \/ \E r \in Reqs, i \in Ids : StartRequest(r, i)
  \/ \E r \in Reqs : StartServer_Create(r)
  \/ \E r \in Reqs : StartServer_Start(r)
  \/ \E r \in Reqs : StartServer_Register(r)
  \/ \E r \in Reqs, i \in Ids : StopRequest(r, i)
  \/ \E r \in Reqs : StopServer_Graceful(r)
  \/ \E r \in Reqs : StopServer_Stop(r)
  \/ \E r \in Reqs : StopServer_Remove(r)
  \/ \E r \in Reqs : StopServer_Finish(r)
  \/ \E r \in Reqs, i \in Ids : KillRequest(r, i)
  \/ \E r \in Reqs : KillServer_Remove(r)
  \/ \E r \in Reqs : KillServer_Finish(r)
  \/ \E r \in Reqs, i \in Ids : RestartRequest(r, i)
  \/ \E r \in Reqs : RestartServer_Start(r)
  \/ \E r \in Reqs, i \in Ids : InstallRequest(r, i)
  \/ \E r \in Reqs : InstallServer_Begin(r)
  \/ \E r \in Reqs : InstallServer_Pull(r)
  \/ \E r \in Reqs : InstallServer_Launch(r)
  \/ \E r \in Reqs : InstallContainerExit(r)
  \/ \E r \in Reqs : InstallServer_Exit(r)
  \/ \E r \in Reqs, i \in Ids : ReinstallRequest(r, i)
  \/ \E r \in Reqs : ReinstallServer_AfterStop(r)
  \/ \E r \in Reqs : ReinstallServer_Mkdir(r)
  \/ \E r \in Reqs : ReinstallServer_Install(r)
  \/ \E t \in timers : TimerFire(t)
  \/ \E i \in Ids : CheckContainerStatus_Inspect(i)
  \/ CheckContainerStatus_Evict
  \/ \E i \in Ids : StatsTick_Sample(i)
  \/ StatsTick_Publish
  \/ StatsTick_End
  \/ \E c \in Cids : ContainerExit(c)
  \/ \E c \in Cids : ContainerLogsDone(c)
  \/ \E c \in Cids : EngineRestart(c)
  \/ \E c \in Cids : ContainerRemoved(c)

Spec == Init /\ [][Next]_vars

\* Start, stop and kill requests alone, one more of them, on an instance whose
\* egg has neither installation script nor stop command.
InitStartStop == InitWith({"plain"}, MaxRaceRequests, TRUE)

NextStartStop ==
  \/ \E r \in Reqs, i \in Ids : StartRequest(r, i)
  \/ \E r \in Reqs : StartServer_Create(r)
  \/ \E r \in Reqs : StartServer_Start(r)
  \/ \E r \in Reqs : StartServer_Register(r)
  \/ \E r \in Reqs, i \in Ids : StopRequest(r, i)
  \/ \E r \in Reqs : StopServer_Graceful(r)
  \/ \E r \in Reqs : StopServer_Remove(r)
  \/ \E r \in Reqs : StopServer_Finish(r)
  \/ \E r \in Reqs, i \in Ids : KillRequest(r, i)
  \/ \E r \in Reqs : KillServer_Remove(r)
  \/ \E r \in Reqs : KillServer_Finish(r)

SpecStartStop == InitStartStop /\ [][NextStartStop]_vars

\* Requests issued one after another: the control plane waits for the answer
\* to a request before it sends the next one.
InitSequential == InitWith(Configs, MaxRequests, FALSE)

SpecSequential == InitSequential /\ [][Next]_vars

\* ------------------------------------------------- cleanupOrphanedContainers
\* a container named pyro-server-<id> comes to exist on the engine without the
\* daemon: made by hand, or left behind by an earlier run of the daemon
ContainerCreatedOutside(serverId) ==
  /\ nextCid \in Cids
  /\ ~NameInUse(ContainerName(serverId))
  /\ \E st \in {"created", "running"} :
       engine' = [engine EXCEPT ![nextCid] =
                    [name |-> ContainerName(serverId), sid |-> serverId, st |-> st]]
  /\ nextCid' = nextCid + 1
  /\ UNCHANGED <<containers, serverStats, configs, installSh, reqs, timers,
                 published, recon, ticker, limit, overlap, fileOp, serverLog,
                 sweep, shutdown, cmd,
                 dirs, quietVars>>

\* docker.listContainers({ all: true }), newest first, filtered on the name
ListContainers ==
  LET n      == Cardinality(Cids)
      byAge  == [k \in 1..n |-> n + 1 - k]
      info   == [k \in 1..n |-> [c   |-> byAge[k],
                                 sid |-> engine[byAge[k]].sid,
                                 st  |-> engine[byAge[k]].st]]
      isPyro(e) == /\ e.st # "absent"
                   /\ engine[e.c].name # NoName
                   /\ engine[e.c].name[1] = "pyro-server-"
  IN SelectSeq(info, isPyro)

\* `await this.loadServerConfig(serverId)` resolves
ConfigLoads(serverId) == serverId \in Ids /\ loadServerConfig(serverId) # "none"

\* the cron task starts: `await this.docker.listContainers(...)`
Sweep_List ==
  /\ sweep.pc = "idle"
  /\ sweep' = [pc |-> "loop", list |-> ListContainers]
  /\ UNCHANGED <<containers, serverStats, engine, nextCid, configs, installSh,
                 reqs, timers, published, recon, ticker, limit, overlap, fileOp,
                 serverLog, shutdown, cmd,
                 dirs, quietVars>>

\* head of the for loop: load the config of the next listed container; when it
\* loads go on to the next, when it does not go to stop or to remove by the
\* State the listing reported
Sweep_Load ==
  /\ sweep.pc = "loop"
  /\ sweep' = IF sweep.list = <<>> THEN NoSweep
              ELSE IF ConfigLoads(Head(sweep.list).sid)
                     THEN [sweep EXCEPT !.list = Tail(@)]
              ELSE IF Head(sweep.list).st = "running"
                     THEN [sweep EXCEPT !.pc = "stop"]
                     ELSE [sweep EXCEPT !.pc = "remove"]
  /\ UNCHANGED <<containers, serverStats, engine, nextCid, configs, installSh,
                 reqs, timers, published, recon, ticker, limit, overlap, fileOp,
                 serverLog, shutdown, cmd,
                 dirs, quietVars>>

\* `await container.stop()` inside the inner catch block: a rejection leaves
\* the for loop through the outer catch, the rest of the list is not visited
Sweep_Stop ==
  LET c == Head(sweep.list).c IN
  /\ sweep.pc = "stop"
  /\ IF engine[c].st = "running"
       THEN /\ engine' = [engine EXCEPT ![c].st = "stopped"]
            /\ sweep' = [sweep EXCEPT !.pc = "remove"]
       ELSE /\ UNCHANGED engine
            /\ sweep' = [pc |-> "idle", list |-> Tail(sweep.list)]
  /\ UNCHANGED <<containers, serverStats, nextCid, configs, installSh, reqs,
                 timers, published, recon, ticker, limit, overlap, fileOp,
                 serverLog, shutdown, cmd,
                 dirs, quietVars>>

\* `await container.remove()`, in the same catch block
Sweep_Remove ==
  LET c == Head(sweep.list).c IN
  /\ sweep.pc = "remove"
  /\ IF engine[c].st \in {"created", "exited", "stopped"}
       THEN /\ engine' = [engine EXCEPT ![c] = NoContainer]
            /\ sweep' = [pc |-> "loop", list |-> Tail(sweep.list)]
       ELSE /\ UNCHANGED engine
            /\ sweep' = [pc |-> "idle", list |-> Tail(sweep.list)]
  /\ UNCHANGED <<containers, serverStats, nextCid, configs, installSh, reqs,
                 timers, published, recon, ticker, limit, overlap, fileOp,
                 serverLog, shutdown, cmd,
                 dirs, quietVars>>

\* The orphan sweep alone, on an engine where containers named after the
\* instance and after ids without a config come and go.
InitSweep == InitWith({"none", "plain"}, MaxRequests, TRUE)

NextSweep ==
  \/ \E i \in Ids \cup Ghosts : ContainerCreatedOutside(i)
  \/ \E c \in Cids : ContainerExit(c)
  \/ \E c \in Cids : EngineRestart(c)
  \/ \E c \in Cids : ContainerRemoved(c)
  \/ Sweep_List
  \/ Sweep_Load
  \/ Sweep_Stop
  \/ Sweep_Remove

SpecSweep == InitSweep /\ [][NextSweep]_vars


\* ------------------------------------------------------ process.on('SIGTERM')
\* the for loop over daemon.containers.entries() takes its next entry: a Map
\* iterator yields the entries it has not gone past, those set while the
\* handler was waiting included; with none left the loop ends and
\* process.exit(0) runs in the same turn
SigtermNext ==
  IF \E i \in Ids : containers[i] # NoC /\ i \notin shutdown.passed
    THEN LET i == CHOOSE i \in Ids : containers[i] # NoC /\ i \notin shutdown.passed
         IN [pc |-> "stop", c |-> containers[i], passed |-> shutdown.passed \cup {i}]
    ELSE [pc |-> "exited", c |-> NoC, passed |-> shutdown.passed]

\* the signal arrives; the HTTP server and the event bus are left listening
Sigterm ==
  /\ shutdown.pc = "up"
  /\ shutdown' = SigtermNext
  /\ UNCHANGED <<containers, serverStats, engine, nextCid, configs, installSh,
                 reqs, timers, published, recon, ticker, limit, overlap, fileOp,
                 serverLog, sweep, cmd,
                 dirs, quietVars>>

\* `await container.stop({ t: 10 })`; a rejection is caught and logged, and
\* the loop goes on with the next entry
Sigterm_Stop ==
  /\ shutdown.pc = "stop"
  /\ IF engine[shutdown.c].st = "running"
       THEN /\ engine' = [engine EXCEPT ![shutdown.c].st = "stopped"]
            /\ shutdown' = [shutdown EXCEPT !.pc = "remove"]
       ELSE /\ UNCHANGED engine
            /\ shutdown' = SigtermNext
  /\ UNCHANGED <<containers, serverStats, nextCid, configs, installSh, reqs,
                 timers, published, recon, ticker, limit, overlap, fileOp,
                 serverLog, sweep, cmd,
                 dirs, quietVars>>

\* `await container.remove()`, then the next entry
Sigterm_Remove ==
  /\ shutdown.pc = "remove"
  /\ IF engine[shutdown.c].st \in {"created", "exited", "stopped"}
       THEN engine' = [engine EXCEPT ![shutdown.c] = NoContainer]
       ELSE UNCHANGED engine
  /\ shutdown' = SigtermNext
  /\ UNCHANGED <<containers, serverStats, nextCid, configs, installSh, reqs,
                 timers, published, recon, ticker, limit, overlap, fileOp,
                 serverLog, sweep, cmd,
                 dirs, quietVars>>

\* the daemon process is there to run a handler
Alive == shutdown.pc # "exited"

\* Start, stop and kill requests and one SIGTERM: the handlers run until the
\* process exits, the engine and its containers go on after that.
InitShutdown == InitWith({"plain"}, MaxRequests, TRUE)

NextShutdown ==
  \/ \E r \in Reqs, i \in Ids : Alive /\ StartRequest(r, i)
  \/ \E r \in Reqs : Alive /\ StartServer_Create(r)
  \/ \E r \in Reqs : Alive /\ StartServer_Start(r)
  \/ \E r \in Reqs : Alive /\ StartServer_Register(r)
  \/ \E r \in Reqs, i \in Ids : Alive /\ StopRequest(r, i)
  \/ \E r \in Reqs : Alive /\ StopServer_Graceful(r)
  \/ \E r \in Reqs : Alive /\ StopServer_Remove(r)
  \/ \E r \in Reqs : Alive /\ StopServer_Finish(r)
  \/ \E r \in Reqs, i \in Ids : Alive /\ KillRequest(r, i)
  \/ \E r \in Reqs : Alive /\ KillServer_Remove(r)
  \/ \E r \in Reqs : Alive /\ KillServer_Finish(r)
  \/ \E c \in Cids : ContainerExit(c)
  \/ \E c \in Cids : EngineRestart(c)
  \/ Sigterm
  \/ Sigterm_Stop
  \/ Sigterm_Remove

SpecShutdown == InitShutdown /\ [][NextShutdown]_vars

\* ------------------------------------------------------------ sendCommand
\* The two ways a command comes in: the route POST /api/servers/:id/command
\* ("http", sendCommand) and the event `send-command` of a socket ("socket").
Paths == {"http", "socket"}

\* what the requester is told when executeCommand gives up: a socket gets
\* `command-output` with error: true; sendCommand passes no socket, gets no
\* error back from executeCommand and answers { success: true }
CommandFailed(path) == IF path = "socket" THEN "error" ELSE "success"

\* sendCommand answers 400 to an empty command; otherwise executeCommand up to
\* `await this.executeCommandInContainer(container, command)`
SendCommand(path, serverId, given) ==
  LET q == [NoCmd EXCEPT !.path = path, !.id = serverId] IN
  /\ cmd.pc \in {"idle", "done"}
  /\ cmd' = IF path = "http" /\ ~given
              THEN [q EXCEPT !.pc = "done", !.res = "400",
                             !.running = containers[serverId] # NoC]
            ELSE IF containers[serverId] = NoC
              THEN [q EXCEPT !.pc = "done", !.res = CommandFailed(path)]
              ELSE [q EXCEPT !.pc = "exec", !.c = containers[serverId],
                             !.running = TRUE]
  /\ UNCHANGED <<containers, serverStats, engine, nextCid, configs, installSh,
                 reqs, timers, published, recon, ticker, limit, overlap, fileOp,
                 serverLog, sweep, shutdown,
                 dirs, quietVars>>

\* container.exec / exec.start answered: the engine runs the command in a
\* running container only; then the `> command` line and the success answer,
\* or the catch block
ExecuteCommand_Exec ==
  /\ cmd.pc = "exec"
  /\ executeCommandInContainer(cmd.id, cmd.c, "command")
  /\ IF engine[cmd.c].st = "running"
       THEN /\ serverLog' = LogEmit(serverLog, cmd.id, "command")
            /\ cmd' = [cmd EXCEPT !.pc = "done", !.res = "success", !.ran = TRUE]
       ELSE /\ UNCHANGED serverLog
            /\ cmd' = [cmd EXCEPT !.pc = "done", !.res = CommandFailed(cmd.path)]
  /\ UNCHANGED <<containers, serverStats, engine, nextCid, configs, installSh,
                 reqs, timers, published, recon, ticker, limit, overlap, fileOp,
                 sweep, shutdown,
                 dirs, serviceVars>>

\* Commands sent on both paths to an instance that is started, stopped and
\* killed, and whose server process may end by itself.
InitCommand == InitWith({"plain"}, MaxRequests, TRUE)

NextCommand ==
  \/ \E path \in Paths, i \in Ids, given \in BOOLEAN : SendCommand(path, i, given)
  \/ ExecuteCommand_Exec
  \/ \E r \in Reqs, i \in Ids : StartRequest(r, i)
  \/ \E r \in Reqs : StartServer_Create(r)
  \/ \E r \in Reqs : StartServer_Start(r)
  \/ \E r \in Reqs : StartServer_Register(r)
  \/ \E r \in Reqs, i \in Ids : StopRequest(r, i)
  \/ \E r \in Reqs : StopServer_Graceful(r)
  \/ \E r \in Reqs : StopServer_Remove(r)
  \/ \E r \in Reqs : StopServer_Finish(r)
  \/ \E r \in Reqs, i \in Ids : KillRequest(r, i)
  \/ \E r \in Reqs : KillServer_Remove(r)
  \/ \E r \in Reqs : KillServer_Finish(r)
  \/ \E c \in Cids : ContainerExit(c)

SpecCommand == InitCommand /\ [][NextCommand]_vars

\* ---------------------------------------------------- the ticker's tick
\* Two instances are started and one is killed, containers are removed from
\* outside, and the stats ticker goes round the registry all the while.
TickIds == {"s1", "s2"}

InitTicker ==
  /\ ConstructedFor(TickIds, {"plain"}, MaxRaceRequests, TRUE)
  /\ probe = NoProbe
  /\ logs = <<>>

NextTicker ==
  \/ \E r \in Reqs, i \in TickIds : StartRequest(r, i)
  \/ \E r \in Reqs : StartServer_Create(r)
  \/ \E r \in Reqs : StartServer_Start(r)
  \/ \E r \in Reqs : StartServer_Register(r)
  \/ \E r \in Reqs, i \in TickIds : KillRequest(r, i)
  \/ \E r \in Reqs : KillServer_Remove(r)
  \/ \E r \in Reqs : KillServer_Finish(r)
  \/ \E c \in Cids : ContainerRemoved(c)
  \/ \E i \in TickIds : StatsTick_Sample(i)
  \/ StatsTick_Publish
  \/ StatsTick_End

SpecTicker == InitTicker /\ [][NextTicker]_vars

\* ------------------------------------------------- a stop, to its end
\* Start and stop requests on an instance whose server may end by itself and
\* be started again by the engine, with the reconciler and the timers.  Every
\* handler that is suspended resumes, every timer fires and the reconciler's
\* interval keeps coming; requests and the engine's own events need not.
InitStopLive == InitWith({"plain"}, MaxRequests, TRUE)

NextStopLive ==
  \/ \E r \in Reqs, i \in Ids : StartRequest(r, i)
  \/ \E r \in Reqs : StartServer_Create(r)
  \/ \E r \in Reqs : StartServer_Start(r)
  \/ \E r \in Reqs : StartServer_Register(r)
  \/ \E r \in Reqs, i \in Ids : StopRequest(r, i)
  \/ \E r \in Reqs : StopServer_Graceful(r)
  \/ \E r \in Reqs : StopServer_Remove(r)
  \/ \E r \in Reqs : StopServer_Finish(r)
  \/ \E t \in timers : TimerFire(t)
  \/ \E i \in Ids : CheckContainerStatus_Inspect(i)
  \/ CheckContainerStatus_Evict
  \/ \E c \in Cids : ContainerExit(c)
  \/ \E c \in Cids : EngineRestart(c)

SpecStopLive ==
  /\ InitStopLive
  /\ [][NextStopLive]_vars
  /\ \A r \in Reqs :
       /\ WF_vars(StartServer_Create(r))
       /\ WF_vars(StartServer_Start(r))
       /\ WF_vars(StartServer_Register(r))
       /\ WF_vars(StopServer_Graceful(r))
       /\ WF_vars(StopServer_Remove(r))
       /\ WF_vars(StopServer_Finish(r))
  /\ WF_vars(\E t \in timers : TimerFire(t))
  /\ WF_vars(\E i \in Ids : CheckContainerStatus_Inspect(i))
  /\ WF_vars(CheckContainerStatus_Evict)

\* ------------------------------------------------------ the stop command
\* Start and stop requests on an instance whose egg declares a stop command:
\* a console command, or one that begins with `^`.
InitStopCommand == InitWith({"script", "signal"}, MaxRequests, TRUE)

NextStopCommand ==
  \/ \E r \in Reqs, i \in Ids : StartRequest(r, i)
  \/ \E r \in Reqs : StartServer_Create(r)
  \/ \E r \in Reqs : StartServer_Start(r)
  \/ \E r \in Reqs : StartServer_Register(r)
  \/ \E r \in Reqs, i \in Ids : StopRequest(r, i)
  \/ \E r \in Reqs : StopServer_Graceful(r)
  \/ \E r \in Reqs : StopServer_Stop(r)
  \/ \E r \in Reqs : StopServer_Remove(r)
  \/ \E r \in Reqs : StopServer_Finish(r)
  \/ \E c \in Cids : ContainerExit(c)

SpecStopCommand == InitStopCommand /\ [][NextStopCommand]_vars

\* ----------------------------------------------------- instance configs
\* loadServerConfig(serverId) in full: the document read, `egg` filled in
\* from the registry when the document has an eggId and no egg of its own
LoadConfig(document, registry) ==
  IF document.eggId # "-" /\ document.egg = NoEgg
    THEN [document EXCEPT !.egg = registry[document.eggId]]
    ELSE document

\* the kind (of Configs) of what loadServerConfig returns for a document
KindOf(document, registry) ==
  LET config == LoadConfig(document, registry) IN
  IF ~document.exists THEN "none"
  ELSE IF config.egg = NoEgg THEN "noegg"
  ELSE IF config.egg.uuid = "script" THEN "script"
  ELSE "plain"

\* validateServerConfig(config): the errors it returns
validateServerConfig(config) ==
  (IF config.eggId = "-" THEN {"eggId"} ELSE {})
  \cup (IF config.port = 0 \/ config.port < MinPort \/ config.port > MaxPort
          THEN {"port"} ELSE {})
  \cup (IF ~config.plan THEN {"plan"} ELSE {})
  \cup (IF config.eggId # "-" /\ eggs[config.eggId] # NoEgg /\ ~config.vars
          THEN {"variables"} ELSE {})

\* The request bodies of POST / PUT /api/servers/:id/config: a complete one
\* at each end of the port range, and one for each way of being incomplete.
ConfigBodies ==
  {Doc("plain", NoEgg, port, TRUE, TRUE) : port \in Ports}
  \cup {Doc("plain", NoEgg, MinPort, FALSE, TRUE),
        Doc("plain", NoEgg, MinPort, TRUE, FALSE),
        Doc("other", NoEgg, MinPort, TRUE, TRUE)}

\* a config or egg request arrives when the last one has been answered
AdminArrive(op, id) ==
  [NoAdmin EXCEPT !.op = op, !.id = id,
                  !.before = CASE op \in {"create", "update"} -> <<docs, serverConfigs, dirs>>
                               [] op = "get" -> <<>>
                               [] OTHER -> <<eggs, eggFiles>>]

AdminIdle == admin.pc \in {"idle", "done"}

\* createServerConfig up to `await this.saveServerConfig(serverId, config)`:
\* the only test is this.eggs.has(config.eggId); the egg is embedded
CreateServerConfig(serverId, body) ==
  LET q      == [AdminArrive("create", serverId) EXCEPT !.cfg = body]
      config == [body EXCEPT !.egg = eggs[body.eggId]]
  IN
  /\ AdminIdle
  /\ IF eggs[body.eggId] = NoEgg
       THEN /\ admin' = [q EXCEPT !.pc = "done", !.res = "400"]
            /\ UNCHANGED <<docs, configs>>
       ELSE \E saved \in BOOLEAN :
              /\ admin' = [q EXCEPT !.pc = "c_saved", !.ok = saved, !.cfg = config]
              /\ docs' = IF saved THEN [docs EXCEPT ![serverId] = config] ELSE docs
              /\ configs' = [i \in Ids |-> KindOf(docs'[i], eggs)]
  /\ UNCHANGED <<containers, serverStats, engine, nextCid, installSh, reqs, timers,
                 published, recon, ticker, limit, overlap, fileOp, serverLog,
                 sweep, shutdown, cmd, serverConfigs, dirs, eggs, eggFiles, probe,
                 logs, retention, stdin, stream>>

\* document written: this.serverConfigs.set, `await fs.mkdir(serverPath)`
CreateServerConfig_Mkdir ==
  /\ admin.pc = "c_saved"
  /\ IF ~admin.ok
       THEN /\ admin' = [admin EXCEPT !.pc = "done", !.res = "500"]
            /\ UNCHANGED <<serverConfigs, dirs>>
       ELSE \E made \in BOOLEAN :
              /\ serverConfigs' = [serverConfigs EXCEPT ![admin.id] = admin.cfg]
              /\ dirs' = IF made THEN [dirs EXCEPT ![admin.id] = TRUE] ELSE dirs
              /\ admin' = [admin EXCEPT !.pc = "c_made", !.ok = made]
  /\ UNCHANGED <<containers, serverStats, engine, nextCid, configs, installSh, reqs,
                 timers, published, recon, ticker, limit, overlap, fileOp,
                 serverLog, sweep, shutdown, cmd, docs, eggs, eggFiles, probe,
                 logs, retention, stdin, stream>>

\* directory made: res.json({ success: true }), or the catch block
CreateServerConfig_Respond ==
  /\ admin.pc = "c_made"
  /\ admin' = [admin EXCEPT !.pc = "done", !.res = IF admin.ok THEN "200" ELSE "500"]
  /\ UNCHANGED <<lifecycleVars, fileOp, docs, serverConfigs, dirs, eggs, eggFiles, probe,
                 logs, retention, stdin, stream>>

\* updateServerConfig up to `await this.saveServerConfig(serverId, config)`:
\* the body is written as it came
UpdateServerConfig(serverId, body) ==
  LET q == [AdminArrive("update", serverId) EXCEPT !.cfg = body] IN
  /\ AdminIdle
  /\ \E saved \in BOOLEAN :
       /\ admin' = [q EXCEPT !.pc = "u_saved", !.ok = saved]
       /\ docs' = IF saved THEN [docs EXCEPT ![serverId] = body] ELSE docs
       /\ configs' = [i \in Ids |-> KindOf(docs'[i], eggs)]
  /\ UNCHANGED <<containers, serverStats, engine, nextCid, installSh, reqs, timers,
                 published, recon, ticker, limit, overlap, fileOp, serverLog,
                 sweep, shutdown, cmd, serverConfigs, dirs, eggs, eggFiles, probe,
                 logs, retention, stdin, stream>>

\* document written: this.serverConfigs.set and the answer, or the catch block
UpdateServerConfig_Respond ==
  /\ admin.pc = "u_saved"
  /\ IF admin.ok
       THEN /\ serverConfigs' = [serverConfigs EXCEPT ![admin.id] = admin.cfg]
            /\ admin' = [admin EXCEPT !.pc = "done", !.res = "200"]
       ELSE /\ UNCHANGED serverConfigs
            /\ admin' = [admin EXCEPT !.pc = "done", !.res = "500"]
  /\ UNCHANGED <<lifecycleVars, fileOp, docs, dirs, eggs, eggFiles, probe,
                 logs, retention, stdin, stream>>

\* getServerConfig: what loadServerConfig returns, or 404
GetServerConfig(serverId) ==
  /\ AdminIdle
  /\ admin' = IF docs[serverId].exists
                THEN [AdminArrive("get", serverId) EXCEPT
                        !.pc = "done", !.res = "200",
                        !.cfg = LoadConfig(docs[serverId], eggs)]
                ELSE [AdminArrive("get", serverId) EXCEPT !.pc = "done", !.res = "404"]
  /\ UNCHANGED <<lifecycleVars, fileOp, docs, serverConfigs, dirs, eggs, eggFiles, probe,
                 logs, retention, stdin, stream>>

\* ------------------------------------------------------------------- eggs
\* The request bodies of POST /api/eggs and PUT /api/eggs/:id: complete ones,
\* one without a name, one without a docker image, one without a uuid.
EggBodies ==
  {[uuid |-> u, name |-> TRUE, image |-> TRUE, rev |-> v] :
     u \in {"plain", "other"}, v \in 1..MaxRev}
  \cup {[uuid |-> "other", name |-> FALSE, image |-> TRUE, rev |-> MaxRev],
        [uuid |-> "other", name |-> TRUE, image |-> FALSE, rev |-> MaxRev],
        [uuid |-> "-", name |-> TRUE, image |-> TRUE, rev |-> MaxRev]}

\* `await this.saveEgg(egg)` / `await fs.unlink(eggPath)`: the file is written
\* or removed unless the call fails
EggFileStep(q, id, egg) ==
  \E done \in BOOLEAN :
    /\ admin' = [q EXCEPT !.pc = "e_saved", !.ok = done, !.id = id, !.egg = egg]
    /\ eggFiles' = IF done THEN [eggFiles EXCEPT ![id] = egg] ELSE eggFiles

\* createEgg up to saveEgg
CreateEgg(body) ==
  /\ AdminIdle
  /\ IF body.uuid = "-" \/ ~body.name \/ ~body.image
       THEN /\ admin' = [AdminArrive("createEgg", body.uuid) EXCEPT
                           !.pc = "done", !.res = "400", !.egg = body]
            /\ UNCHANGED eggFiles
       ELSE EggFileStep(AdminArrive("createEgg", body.uuid), body.uuid, body)
  /\ UNCHANGED <<lifecycleVars, fileOp, docs, serverConfigs, dirs, eggs, probe,
                 logs, retention, stdin, stream>>

\* updateEgg up to saveEgg: the only test is this.eggs.has(id)
UpdateEgg(id, body) ==
  /\ AdminIdle
  /\ IF eggs[id] = NoEgg
       THEN /\ admin' = [AdminArrive("updateEgg", id) EXCEPT
                           !.pc = "done", !.res = "404", !.egg = body]
            /\ UNCHANGED eggFiles
       ELSE EggFileStep(AdminArrive("updateEgg", id), id, [body EXCEPT !.uuid = id])
  /\ UNCHANGED <<lifecycleVars, fileOp, docs, serverConfigs, dirs, eggs, probe,
                 logs, retention, stdin, stream>>

\* deleteEgg up to fs.unlink: no look at the configs that name the egg
DeleteEgg(id) ==
  /\ AdminIdle
  /\ IF eggs[id] = NoEgg
       THEN /\ admin' = [AdminArrive("deleteEgg", id) EXCEPT !.pc = "done", !.res = "404"]
            /\ UNCHANGED eggFiles
       ELSE EggFileStep(AdminArrive("deleteEgg", id), id, NoEgg)
  /\ UNCHANGED <<lifecycleVars, fileOp, docs, serverConfigs, dirs, eggs, probe,
                 logs, retention, stdin, stream>>

\* file written or removed: this.eggs.set / this.eggs.delete and the answer,
\* or the catch block; what loadServerConfig returns follows the registry
Egg_Respond ==
  /\ admin.pc = "e_saved"
  /\ IF admin.ok
       THEN /\ eggs' = [eggs EXCEPT ![admin.id] = admin.egg]
            /\ admin' = [admin EXCEPT !.pc = "done", !.res = "200"]
       ELSE /\ UNCHANGED eggs
            /\ admin' = [admin EXCEPT !.pc = "done", !.res = "500"]
  /\ configs' = [i \in Ids |-> KindOf(docs[i], eggs')]
  /\ UNCHANGED <<containers, serverStats, engine, nextCid, installSh, reqs, timers,
                 published, recon, ticker, limit, overlap, fileOp, serverLog,
                 sweep, shutdown, cmd, docs, serverConfigs, dirs, eggFiles, probe,
                 logs, retention, stdin, stream>>

\* Config requests, one at a time, on an instance that is configured or not
\* yet, with the default eggs in the registry.
InitConfig == InitWith({"none", "plain"}, MaxRequests, TRUE)

NextConfig ==
  \/ \E i \in Ids, body \in ConfigBodies : CreateServerConfig(i, body)
  \/ CreateServerConfig_Mkdir
  \/ CreateServerConfig_Respond
  \/ \E i \in Ids, body \in ConfigBodies : UpdateServerConfig(i, body)
  \/ UpdateServerConfig_Respond
  \/ \E i \in Ids : GetServerConfig(i)

SpecConfig == InitConfig /\ [][NextConfig]_vars

\* Egg requests, one at a time, beside configure, getConfig and one start
\* request for an instance of the egg "plain".
InitEggs == InitWith({"none", "plain"}, 1, TRUE)

NextEggs ==
  \/ \E body \in EggBodies : CreateEgg(body)
  \/ \E e \in EggIds \ {"script"}, body \in EggBodies : UpdateEgg(e, body)
  \/ \E e \in EggIds \ {"script"} : DeleteEgg(e)
  \/ Egg_Respond
  \/ \E i \in Ids : CreateServerConfig(i, Doc("plain", NoEgg, MinPort, TRUE, TRUE))
  \/ CreateServerConfig_Mkdir
  \/ CreateServerConfig_Respond
  \/ \E i \in Ids : GetServerConfig(i)
  \/ \E r \in Reqs, i \in Ids : StartRequest(r, i)
  \/ \E r \in Reqs : StartServer_Create(r)
  \/ \E r \in Reqs : StartServer_Start(r)
  \/ \E r \in Reqs : StartServer_Register(r)

SpecEggs == InitEggs /\ [][NextEggs]_vars

\* --------------------------------------------------------- processVariables
\* A text is a sequence of tokens: a placeholder, the replacement pattern
\* "$&" of String.prototype.replace, or any other piece of text.
EggVars   == {"A", "B"}                    \* env_variable of the egg's variables
Env(v)    == <<"{{server.build.env.", v, "}}">>
Direct(v) == <<"{{", v, "}}">>
PortTok   == <<"{{server.build.default.port}}">>
MemTok    == <<"{{SERVER_MEMORY}}">>
JarTok    == <<"{{SERVER_JARFILE}}">>
Tokens    == {Env(v) : v \in EggVars} \cup {Direct(v) : v \in EggVars}
             \cup {PortTok, MemTok, JarTok, <<"text">>}
MaxTokens == 2                            \* tokens of a template
Templates == UNION {[1..n -> Tokens] : n \in 0..MaxTokens}
Values    == {<<>>, << <<"text">> >>, <<MemTok>>, <<PortTok>>, <<Env("B")>>,
              <<Direct("B")>>, << <<"$&">> >>}
DefaultValue == << <<"default">> >>       \* variable.default_value
Orders    == {<<"A", "B">>, <<"B", "A">>}

\* what the tests hand to processVariables: the egg's variables in their
\* declared order, config.variables with its keys in their own order; port
\* and plan are not set
TemplateConfigs ==
  [order : Orders, keys : Orders, variables : [EggVars -> Values]]

\* result.replace(new RegExp(placeholder, 'g'), value): every occurrence of
\* the placeholder gives way to the value, in which "$&" stands for the match
RECURSIVE ReplaceAll(_, _, _)
ReplaceAll(text, placeholder, value) ==
  IF text = <<>> THEN <<>>
  ELSE (IF Head(text) = placeholder
          THEN [k \in 1..Len(value) |->
                  IF value[k] = <<"$&">> THEN placeholder ELSE value[k]]
          ELSE <<Head(text)>>)
       \o ReplaceAll(Tail(text), placeholder, value)

\* config.variables[v] ? config.variables[v] : variable.default_value
ValueOf(config, v) ==
  IF config.variables[v] # <<>> THEN config.variables[v] ELSE DefaultValue

\* the loop over config.egg.variables
RECURSIVE EggPass(_, _, _)
EggPass(result, variables, config) ==
  IF variables = <<>> THEN result
  ELSE EggPass(ReplaceAll(result, Env(Head(variables)), ValueOf(config, Head(variables))),
               Tail(variables), config)

\* the loop over Object.entries(config.variables)
RECURSIVE DirectPass(_, _, _)
DirectPass(result, keys, config) ==
  IF keys = <<>> THEN result
  ELSE DirectPass(ReplaceAll(result, Direct(Head(keys)), config.variables[Head(keys)]),
                  Tail(keys), config)

processVariables(template, config) ==
  LET r1 == EggPass(template, config.order, config)
      r2 == ReplaceAll(r1, PortTok, << <<"25565">> >>)
      r3 == ReplaceAll(r2, MemTok, << <<"1024">> >>)
      r4 == ReplaceAll(r3, JarTok, << <<"server.jar">> >>)
  IN DirectPass(r4, config.keys, config)

\* createEggFiles / createContainer expand a template of the egg
ProcessVariables ==
  /\ probe.fn = "processVariables"
  /\ ~probe.done
  /\ probe' = [probe EXCEPT !.done = TRUE,
                            !.result = processVariables(probe.template, probe.config)]
  /\ UNCHANGED <<lifecycleVars, fileOp, docs, serverConfigs, dirs, eggs, eggFiles, admin,
                 logs, retention, stdin, stream>>

\* processVariables on every template and config of the bounds
InitTemplate ==
  /\ Constructed({"plain"}, MaxRequests, TRUE)
  /\ probe \in [fn : {"processVariables"}, template : Templates,
                config : TemplateConfigs, done : {FALSE}, result : {<<>>}]
  /\ logs = <<>>

SpecTemplate == InitTemplate /\ [][ProcessVariables]_vars

\* ---------------------------------------------------- processContainerStats
MaxCounter == 3                           \* largest counter value of a sample
Counters   == 0..MaxCounter

\* a sample of container.stats({ stream: false }); a field that is missing
\* reads as 0, which `|| 0` and `|| 1` treat alike
Samples ==
  [total_usage : Counters, pre_total_usage : Counters,
   system_cpu_usage : Counters, pre_system_cpu_usage : Counters,
   online_cpus : 0..2, usage : Counters, limit : Counters]

\* Math.round(n / d) for d > 0: the nearest integer, halves upward
Round(n, d) == (2 * n + d) \div (2 * d)

\* Math.min
Min(a, b) == IF a < b THEN a ELSE b

processContainerStats(stats) ==
  LET cpuDelta    == stats.total_usage - stats.pre_total_usage
      systemDelta == stats.system_cpu_usage - stats.pre_system_cpu_usage
      cpus        == IF stats.online_cpus = 0 THEN 1 ELSE stats.online_cpus
      memoryLimit == IF stats.limit = 0 THEN 1 ELSE stats.limit
      cpuRounded  == IF systemDelta > 0
                       THEN Round(cpuDelta * cpus * 100, systemDelta)
                       ELSE 0
  IN [cpu    |-> Min(cpuRounded, 100),
      memory |-> Min(Round(stats.usage * 100, memoryLimit), 100)]

\* the stats ticker processes a sample
ProcessContainerStats ==
  /\ probe.fn = "processContainerStats"
  /\ ~probe.done
  /\ probe' = [probe EXCEPT !.done = TRUE,
                            !.result = processContainerStats(probe.stats)]
  /\ UNCHANGED <<lifecycleVars, fileOp, docs, serverConfigs, dirs, eggs, eggFiles, admin,
                 logs, retention, stdin, stream>>

\* processContainerStats on every sample of the bounds
InitStats ==
  /\ Constructed({"plain"}, MaxRequests, TRUE)
  /\ probe \in [fn : {"processContainerStats"}, stats : Samples, done : {FALSE},
                result : {[cpu |-> 0, memory |-> 0]}]
  /\ logs = <<>>

SpecStats == InitStats /\ [][ProcessContainerStats]_vars

\* ----------------------------------------------------------- detectLogLevel
\* A log line, as far as the classification looks at it: the set of the
\* words it contains, some of them in capitals.
LogWords == {"error", "exception", "fatal", "warn", "warning", "debug", "info",
             "done", "ERROR", "Debug", "hello"}
LogLines == SUBSET LogWords

\* log.toLowerCase(), word by word
toLowerCase(line) ==
  {CASE word = "ERROR" -> "error"
     [] word = "Debug" -> "debug"
     [] OTHER          -> word : word \in line}

\* logLower.includes(text): `warn` is also found inside `warning`
includes(logLower, text) ==
  \/ text \in logLower
  \/ text = "warn" /\ "warning" \in logLower

detectLogLevel(log) ==
  LET logLower == toLowerCase(log) IN
  IF includes(logLower, "error") \/ includes(logLower, "exception")
       \/ includes(logLower, "fatal") THEN "error"
  ELSE IF includes(logLower, "warn") \/ includes(logLower, "warning") THEN "warning"
  ELSE IF includes(logLower, "info") \/ includes(logLower, "done") THEN "info"
  ELSE IF includes(logLower, "debug") THEN "debug"
  ELSE "info"

\* the data handler classifies a line
DetectLogLevel ==
  /\ probe.fn = "detectLogLevel"
  /\ ~probe.done
  /\ probe' = [probe EXCEPT !.done = TRUE, !.level = detectLogLevel(probe.log)]
  /\ UNCHANGED <<lifecycleVars, fileOp, docs, serverConfigs, dirs, eggs, eggFiles, admin,
                 logs, retention, stdin, stream>>

\* detectLogLevel on every line of the bounds
InitLevel ==
  /\ Constructed({"plain"}, MaxRequests, TRUE)
  /\ probe \in [fn : {"detectLogLevel"}, log : LogLines, done : {FALSE}, level : {"-"}]
  /\ logs = <<>>

SpecLevel == InitLevel /\ [][DetectLogLevel]_vars

\* ----------------------------------------------------------- cleanupOldLogs
RetentionDays == 30
MaxLogFiles   == 2                        \* entries of one instance's logs directory
MaxLogDirs    == 2                        \* entries of the logs directory

\* An entry of logs/<id>: a regular file or a directory, its mtime so many
\* days ago, and whether it is still there.
LogEntries == [kind : {"file", "dir"},
               age  : {RetentionDays - 1, RetentionDays + 1},
               there : {TRUE}]

\* An entry of logs/: an instance's directory with its entries in readdir
\* order, or a regular file that found its way there
LogDirs ==
  {[kind |-> "file", files |-> <<>>]}
  \cup {[kind |-> "dir", files |-> fs] :
          fs \in UNION {[1..n -> LogEntries] : n \in 0..MaxLogFiles}}

\* the daily timer fires: `await fs.readdir(logsDir)`
CleanupOldLogs ==
  /\ retention.pc = "idle"
  /\ retention' = [pc |-> "server", s |-> 1, f |-> 1]
  /\ UNCHANGED <<lifecycleVars, fileOp, dirs, docs, serverConfigs, eggs, eggFiles,
                 admin, probe, logs, stdin, stream>>

\* head of the outer loop: `await fs.readdir(serverLogsDir)` rejects for an
\* entry that is no directory, and the one catch block ends the sweep
CleanupOldLogs_Server ==
  /\ retention.pc = "server"
  /\ retention' = IF retention.s > Len(logs) \/ logs[retention.s].kind # "dir"
                    THEN NoRetention
                    ELSE [retention EXCEPT !.pc = "stat", !.f = 1]
  /\ UNCHANGED <<lifecycleVars, fileOp, dirs, docs, serverConfigs, eggs, eggFiles,
                 admin, probe, logs, stdin, stream>>

\* head of the inner loop: `await fs.stat(logPath)` and the mtime test (an
\* entry deleted by an earlier sweep is no longer listed, and is passed over)
CleanupOldLogs_Stat ==
  LET files == logs[retention.s].files IN
  /\ retention.pc = "stat"
  /\ retention' = IF retention.f > Len(files)
                    THEN [retention EXCEPT !.pc = "server", !.s = @ + 1]
                  ELSE IF files[retention.f].there
                          /\ files[retention.f].age > RetentionDays
                    THEN [retention EXCEPT !.pc = "unlink"]
                    ELSE [retention EXCEPT !.f = @ + 1]
  /\ UNCHANGED <<lifecycleVars, fileOp, dirs, docs, serverConfigs, eggs, eggFiles,
                 admin, probe, logs, stdin, stream>>

\* `await fs.unlink(logPath)`: rejects for a directory
CleanupOldLogs_Unlink ==
  LET file == logs[retention.s].files[retention.f] IN
  /\ retention.pc = "unlink"
  /\ IF file.kind = "file"
       THEN /\ logs' = [logs EXCEPT ![retention.s].files[retention.f].there = FALSE]
            /\ retention' = [retention EXCEPT !.pc = "stat", !.f = @ + 1]
       ELSE /\ UNCHANGED logs
            /\ retention' = NoRetention
  /\ UNCHANGED <<lifecycleVars, fileOp, dirs, docs, serverConfigs, eggs, eggFiles,
                 admin, probe, stdin, stream>>

\* The retention sweep, day after day, on every logs directory of the bounds.
InitLogs ==
  /\ Constructed({"plain"}, MaxRequests, TRUE)
  /\ probe = NoProbe
  /\ logs \in UNION {[1..n -> LogDirs] : n \in 0..MaxLogDirs}

NextLogs ==
  \/ CleanupOldLogs
  \/ CleanupOldLogs_Server
  \/ CleanupOldLogs_Stat
  \/ CleanupOldLogs_Unlink

\* setInterval keeps the sweep coming, and a sweep that has begun goes on
SpecLogs == InitLogs /\ [][NextLogs]_vars /\ WF_vars(NextLogs)

\* ------------------------------------------------------------ File Service
\* path.join(...): concatenate, then normalize: `..` removes the segment
\* before it and is dropped at the filesystem root
RECURSIVE Normalize(_, _)
Normalize(segs, stack) ==
  IF segs = <<>> THEN stack
  ELSE Normalize(Tail(segs),
                 IF Head(segs) = Up
                   THEN IF stack = <<>> THEN <<>>
                                        ELSE SubSeq(stack, 1, Len(stack) - 1)
                   ELSE Append(stack, Head(segs)))

PathJoin(base, rel) == Normalize(base \o rel, <<>>)

\* path.join(__dirname, 'servers', serverId)
getServerPath(serverId) ==
  PathJoin(Dirname, << <<"s", "e", "r", "v", "e", "r", "s">>, serverId >>)

\* the string of an absolute path: its characters, `/` before every segment
RECURSIVE PathChars(_)
PathChars(segs) ==
  IF segs = <<>> THEN <<>> ELSE <<"/">> \o Head(segs) \o PathChars(Tail(segs))

PathString(segs) == IF segs = <<>> THEN <<"/">> ELSE PathChars(segs)

\* String.prototype.startsWith
startsWith(str, prefix) ==
  /\ Len(prefix) <= Len(str)
  /\ SubSeq(str, 1, Len(prefix)) = prefix

\* The handlers' sandbox test: !fullPath.startsWith(serverPath) answers 400.
InvalidPath(serverId, fullPath) ==
  ~startsWith(PathString(fullPath), PathString(getServerPath(serverId)))

\* a handler that takes one path; `required`: an empty path is answered 400
\* before the path is looked at.  res "fs": the handler went on to the fs call.
OnePathOp(op, serverId, filePath, required) ==
  LET fullPath == PathJoin(getServerPath(serverId), filePath) IN
  /\ fileOp = NoFileOp
  /\ fileOp' = [op |-> op, id |-> serverId, paths |-> <<fullPath>>,
                res |-> IF (required /\ filePath = <<>>) \/ InvalidPath(serverId, fullPath)
                          THEN "400" ELSE "fs"]
  /\ UNCHANGED <<lifecycleVars, dirs, quietVars>>

\* a handler that takes two paths
TwoPathOp(op, serverId, source, destination) ==
  LET sourcePath == PathJoin(getServerPath(serverId), source)
      destPath   == PathJoin(getServerPath(serverId), destination) IN
  /\ fileOp = NoFileOp
  /\ fileOp' = [op |-> op, id |-> serverId, paths |-> <<sourcePath, destPath>>,
                res |-> IF InvalidPath(serverId, sourcePath) \/ InvalidPath(serverId, destPath)
                          THEN "400" ELSE "fs"]
  /\ UNCHANGED <<lifecycleVars, dirs, quietVars>>

GetServerFiles(serverId, filePath) == OnePathOp("list", serverId, filePath, FALSE)
UploadFile(serverId, filePath)     == OnePathOp("upload", serverId, filePath, TRUE)
UpdateFile(serverId, filePath)     == OnePathOp("update", serverId, filePath, TRUE)
DeleteFile(serverId, filePath)     == OnePathOp("delete", serverId, filePath, TRUE)
CopyFile(serverId, source, destination) == TwoPathOp("copy", serverId, source, destination)
RenameFile(serverId, oldPath, newPath)  == TwoPathOp("rename", serverId, oldPath, newPath)

\* res.json(...) / res.status(n).json(...): the handler has answered
FileOpRespond ==
  /\ fileOp # NoFileOp
  /\ fileOp' = NoFileOp
  /\ UNCHANGED <<lifecycleVars, dirs, quietVars>>

NextPath ==
  \/ \E i \in DirIds, p \in RelPaths : GetServerFiles(i, p)
  \/ \E i \in DirIds, p \in RelPaths : UploadFile(i, p)
  \/ \E i \in DirIds, p \in RelPaths : UpdateFile(i, p)
  \/ \E i \in DirIds, p \in RelPaths : DeleteFile(i, p)
  \/ \E i \in DirIds, p, q \in RelPaths : CopyFile(i, p, q)
  \/ \E i \in DirIds, p, q \in RelPaths : RenameFile(i, p, q)
  \/ FileOpRespond

\* File Service requests alone
InitPath == InitWith({"plain"}, MaxRequests, TRUE)

SpecPath == InitPath /\ [][NextPath]_vars

\* =================================================================== claims
\* statuses request r has published in the room of its instance
PublishedBy(r, status) ==
  \E k \in DOMAIN published[reqs[r].id] :
    /\ published[reqs[r].id][k].by = r
    /\ published[reqs[r].id][k].status = status

\* ... or will publish through a timer it has armed
WillPublish(r, status) ==
  \/ PublishedBy(r, status)
  \/ \E t \in timers : t.by = r /\ t.kind = status

\* the runtime containers on the engine that were created for the instance
\* (the one-shot install container is unnamed and belongs to no instance)
ContainersOf(serverId) ==
  {c \in Cids : engine[c].st # "absent" /\ engine[c].sid = serverId}

InTransition(r) ==
  /\ reqs[r].pc \notin {"idle", "done"}
  /\ \E k \in DOMAIN published[reqs[r].id] : published[reqs[r].id][k].by = r

\* C2: lifecycle requests of one instance are serialized: no request begins
\* to act while another request of the same instance is between its first and
\* its last published status.
SerializedLifecycle ==
  [][\A r \in Reqs :
       (reqs[r].pc = "idle" /\ reqs'[r].pc # "idle")
         => \A q \in Reqs \ {r} : ~(reqs[q].id = reqs'[r].id /\ InTransition(q))]_vars

\* the edges of the lifecycle state machine, read generously: an install may
\* begin and may fail in every state, `error` may follow every state, and
\* every state but offline and absent may be left for offline
Transitions ==
  ({"absent", "offline", "installing", "install_failed", "starting", "online",
    "stopping", "error"} \X {"installing", "install_failed", "error"})
  \cup ({"installing", "install_failed", "starting", "online", "stopping",
         "error"} \X {"offline"})
  \cup ({"offline", "install_failed", "error"} \X {"starting"})
  \cup {<<"starting", "online">>, <<"starting", "stopping">>, <<"online", "stopping">>}

StateBefore(serverId, k) ==
  IF k > 1 THEN published[serverId][k - 1].status
           ELSE IF configs[serverId] = "none" THEN "absent" ELSE "offline"

\* C3: every published server-status corresponds to one lifecycle transition,
\* in order: each publication moves the instance along an edge of the state
\* machine (no status twice for one transition, none without a transition).
OneStatusPerTransition ==
  \A i \in Ids : \A k \in DOMAIN published[i] :
    <<StateBefore(i, k), published[i][k].status>> \in Transitions

\* C4: an instance has a registered container handle iff its state is one of
\* starting, online, stopping.
HandleIffRunningState ==
  \A i \in Ids :
    (containers[i] # NoC) <=> (State(i) \in {"starting", "online", "stopping"})

\* C5: when stop(id) returns success the engine lists no container of the
\* instance and the registry and the stats cache hold no entry for id.
StopSuccessLeavesNothing ==
  [][\A r \in Reqs :
       (reqs[r].op = "stop" /\ reqs[r].pc = "sp5" /\ reqs'[r].res = "ok")
         => /\ \A c \in Cids : \/ engine'[c].st = "absent"
                               \/ engine'[c].name # ContainerName(reqs[r].id)
            /\ containers'[reqs[r].id] = NoC
            /\ ~serverStats'[reqs[r].id]]_vars

\* the directory `root` contains the path `full`
Inside(full, root) ==
  /\ Len(root) <= Len(full)
  /\ SubSeq(full, 1, Len(root)) = root

\* C6: whenever a File Service operation goes on to touch the filesystem,
\* every normalized absolute path it uses lies inside the root directory of
\* its instance; a path that leaves the root is rejected.
PathsConfined ==
  fileOp.res = "fs" =>
    \A k \in DOMAIN fileOp.paths : Inside(fileOp.paths[k], getServerPath(fileOp.id))

\* C7: start(id) on an instance with a registered container is rejected with
\* an error and leaves registry, stats cache, engine and published status as
\* they were.
StartOnRunningRejected ==
  [][\A r \in Reqs :
       ( /\ \/ reqs[r].pc = "idle" /\ reqs'[r].op = "start"
            \/ reqs[r].pc = "r_wait" /\ reqs'[r].pc # "r_wait"
         /\ containers[reqs'[r].id] # NoC )
         => /\ reqs'[r].pc = "done" /\ reqs'[r].res = "400"
            /\ UNCHANGED <<containers, serverStats, engine, published, timers>>]_vars

\* a start request was answered 400 while a container is registered
StartRejectedWhileRunning ==
  \E r \in Reqs :
    /\ reqs[r].op = "start" /\ reqs[r].pc = "done" /\ reqs[r].res = "400"
    /\ reqs[r].at \in {"starting", "online"}
    /\ containers[reqs[r].id] # NoC

\* C8: start(id) is rejected unless the instance is offline: a start that
\* arrives in any other state (installing, install_failed, ...) creates and
\* starts no container.
StartOnlyFromOffline ==
  \A r \in Reqs :
    (reqs[r].op = "start" /\ reqs[r].at # "offline")
      => (reqs[r].c = NoC /\ reqs[r].res # "ok")

\* C9: an install whose install container has exited publishes `offline` iff
\* the exit code is 0 and `install_failed` iff it is not; `offline` is never
\* published by an install whose container is still running.
InstallGatedByExit ==
  \A r \in Reqs :
    reqs[r].op = "install" =>
      /\ (reqs[r].pc = "i_wait") => ~WillPublish(r, "offline")
      /\ (reqs[r].pc = "done" /\ reqs[r].code # NoExit) =>
           /\ (reqs[r].code = 0) <=> WillPublish(r, "offline")
           /\ (reqs[r].code # 0) <=> PublishedBy(r, "install_failed")

\* C10: an install that met an error before its install container exited ends
\* with `install_failed` published and never publishes `offline`.
InstallErrorEndsFailed ==
  \A r \in Reqs :
    ( /\ reqs[r].op = "install" /\ reqs[r].pc = "done"
      /\ reqs[r].ferr \/ (reqs[r].res = "500" /\ reqs[r].code = NoExit) )
      => (PublishedBy(r, "install_failed") /\ ~WillPublish(r, "offline"))

\* the statuses request r has published (itself or through its timer), in order
StatusesBy(r) ==
  LET mine == SelectSeq(published[reqs[r].id], LAMBDA e : e.by = r)
  IN  [k \in DOMAIN mine |-> mine[k].status]

\* the install of request r has returned and nothing outside the daemon failed:
\* the instance has an egg and its install container, if any, has exited 0
InstallRan(r) ==
  /\ reqs[r].op = "install" /\ reqs[r].pc = "done"
  /\ HasEgg(configs[reqs[r].id])
  /\ HasScript(configs[reqs[r].id]) => reqs[r].code = 0
  /\ ~reqs[r].ferr

\* C11: consecutive install calls on a freshly configured instance (nothing
\* but installs has been requested) each publish installing then offline, and
\* when they have finished the instance is offline with registry, engine and
\* install script as they were before the first: a second install changes
\* nothing the first one left.
ConsecutiveInstallsIdempotent ==
  ( /\ \A r \in Reqs : reqs[r].pc = "idle" \/ InstallRan(r)
    /\ reqs[1].pc # "idle"
    /\ timers = {} )
  => /\ \A i \in Ids : State(i) = "offline"
     /\ \A r \in Reqs : reqs[r].pc # "idle" =>
           StatusesBy(r) = <<"installing", "offline">>
     /\ \A i \in Ids : containers[i] = NoC /\ ~installSh[i] /\ ~serverStats[i]
     /\ \A c \in Cids : engine[c].st = "absent"

\* two installs, one after the other, have both finished
TwoInstallsFinished ==
  /\ InstallRan(1) /\ InstallRan(2)
  /\ reqs[2].at \in {"installing", "offline"}
  /\ timers = {}
\* C12: an instance whose egg declares a startup.done sentinel is published
\* `online` only when a log line containing the sentinel has been seen.
SentinelGatesOnline ==
  \A i \in Ids :
    ( /\ HasSentinel(configs[i])
      /\ \E k \in DOMAIN published[i] : published[i][k].status = "online" )
    => "done" \in serverLog[i]
\* request r publishes `status` in this step
Publishes(r, status) ==
  LET old == published[reqs[r].id]
      new == published'[reqs[r].id] IN
  /\ reqs'[r] # reqs[r]
  /\ Len(new) = Len(old) + 1
  /\ new[Len(new)].by = r /\ new[Len(new)].status = status

\* C13: a stop performs its steps in order.  Engine stop is requested only
\* after `stopping` was published and, when the egg has a stop command, after
\* the step that sends that command, which delivers it to a running container
\* and stops nothing itself; `offline` is published only after the container
\* has been removed from the engine, together with its deregistration.
StopInOrder ==
  [][\A r \in Reqs :
       /\ (reqs[r].pc \in {"sp1", "sp2"} /\ reqs'[r].pc = "sp4")
            => /\ PublishedBy(r, "stopping")
               /\ ~PublishedBy(r, "offline")
               /\ HasStop(reqs[r].cfg) => reqs[r].pc = "sp2"
       /\ (reqs[r].pc = "sp1" /\ reqs'[r] # reqs[r] /\ HasStop(reqs[r].cfg)
              /\ engine[reqs[r].c].st = "running")
            => (reqs'[r].pc = "sp2" /\ reqs'[r].ok /\ UNCHANGED engine)
       /\ (reqs[r].pc \in {"sp1", "sp2", "sp4", "sp5"} /\ Publishes(r, "offline"))
            => /\ reqs[r].pc = "sp5"
               /\ engine[reqs[r].c].st = "absent"
               /\ containers'[reqs[r].id] = NoC]_vars

\* a stop of an instance whose egg has a stop command has answered success
GracefulStopDone ==
  \E r \in Reqs :
    /\ reqs[r].op = "stop" /\ reqs[r].pc = "done" /\ reqs[r].res = "ok"
    /\ HasStop(configs[reqs[r].id])
    /\ PublishedBy(r, "offline")
\* C14: a kill kills and removes the container at once; when it answers
\* success the instance is deregistered, its cached stats are dropped,
\* `offline` is the last published status and the engine holds no container
\* of the instance.
KillLeavesNothing ==
  [][\A r \in Reqs :
       (reqs[r].op = "kill" /\ reqs[r].pc = "k2" /\ reqs'[r].res = "ok")
         => /\ containers'[reqs[r].id] = NoC
            /\ ~serverStats'[reqs[r].id]
            /\ Publishes(r, "offline")
            /\ \A c \in Cids : \/ engine'[c].st = "absent"
                                  \/ engine'[c].name # ContainerName(reqs[r].id)]_vars
ReinstallSurvivesStopFailure ==
  \A r \in Reqs :
    (reqs[r].op = "reinstall" /\ reqs[r].pc = "done")
      => (PublishedBy(r, "installing") \/ PublishedBy(r, "install_failed"))
\* C17: when the reconciler finds a registered container not running, or no
\* longer on the engine, it evicts the instance, drops its cached stats and
\* publishes `offline` together with the warning that the server exited
\* unexpectedly.
ReconcilerEvictsWithWarning ==
  [][(recon.pc = "inspected" /\ recon'.pc = "idle" /\ recon.obs # "running")
       => /\ containers'[recon.id] = NoC
          /\ ~serverStats'[recon.id]
          /\ Len(published'[recon.id]) = Len(published[recon.id]) + 1
          /\ published'[recon.id][Len(published'[recon.id])].status = "offline"
          /\ "unexpected" \in serverLog'[recon.id]]_vars
\* C18: a sweep that has ended has visited every container it listed whose
\* instance config does not load: a failure on one orphan does not keep it
\* from the orphans listed after that one.
SweepVisitsEveryOrphan ==
  sweep.pc = "idle" => \A k \in 1..Len(sweep.list) : ConfigLoads(sweep.list[k].sid)
\* C19: when the daemon exits on SIGTERM no container is running on the
\* engine, the container of a start request in flight included.
ExitLeavesNothingRunning ==
  [][(shutdown.pc # "exited" /\ shutdown'.pc = "exited")
       => \A c \in Cids : engine'[c].st # "running"]_vars
\* C20: a command sent to an instance that has no container registered is
\* answered with an error on either path, and nothing of it is run on the
\* engine or echoed to the instance's log.
CommandToStoppedInstanceFails ==
  (cmd.pc = "done" /\ ~cmd.running)
    => cmd.res \in {"error", "400"} /\ ~cmd.ran
\* C21: a configure or update request whose body validateServerConfig finds
\* fault with is answered 400 and leaves the persisted document, the config
\* map and the instance directory as they were when it arrived.
InvalidConfigRejected ==
  (admin.op \in {"create", "update"} /\ admin.pc = "done" /\ admin.res # "500"
     /\ validateServerConfig(admin.cfg) # {})
    => /\ admin.res = "400"
       /\ <<docs, serverConfigs, dirs>> = admin.before
\* C22: configure accepts a port exactly when MinPort <= port <= MaxPort: for
\* a body of a known egg with nothing else wrong, answered without an I/O
\* failure, the
\* answer is success iff the port is in the range, and a port outside it
\* leaves the persisted document as it was.
PortRangeEnforced ==
  (admin.op = "create" /\ admin.pc = "done" /\ admin.res # "500"
     /\ eggs[admin.cfg.eggId] # NoEgg
     /\ validateServerConfig(admin.cfg) \subseteq {"port"})
    => /\ admin.res = "200" <=> (admin.cfg.port >= MinPort /\ admin.cfg.port <= MaxPort)
       /\ (admin.cfg.port < MinPort \/ admin.cfg.port > MaxPort)
            => docs = admin.before[1]
\* C23: in every reachable state the instance directory servers/<id> exists
\* whenever the config document configs/<id>.json exists.
DirExistsWithConfig ==
  \A i \in Ids : docs[i].exists => dirs[i]
\* C24: a start request that arrives while the egg named by the instance's
\* eggId is not in the registry is refused: it is answered at once, or it has
\* loaded a config without egg, for which no container is created.
StartRefusedWithoutEgg ==
  [][\A r \in Reqs :
       LET doc == docs[reqs'[r].id] IN
       (/\ reqs[r].pc \in {"idle", "done"}
        /\ reqs'[r] # reqs[r]
        /\ reqs'[r].op = "start"
        /\ doc.exists
        /\ doc.eggId = "-" \/ eggs[doc.eggId] = NoEgg)
         => reqs'[r].pc = "done" \/ ~HasEgg(reqs'[r].cfg)]_vars
\* C25: the config getConfig returns carries, as its `egg`, the descriptor
\* the registry holds for the config's eggId at the time of the load.
LoadedEggIsCurrent ==
  (admin.op = "get" /\ admin.pc = "done" /\ admin.res = "200"
     /\ admin.cfg.eggId # "-" /\ eggs[admin.cfg.eggId] # NoEgg)
    => admin.cfg.egg = eggs[admin.cfg.eggId]
\* C26: a create or update of an egg whose descriptor lacks the uuid, the
\* name or the docker image is rejected and leaves the registry and the eggs
\* directory as they were when it arrived.
InvalidEggRejected ==
  (admin.op \in {"createEgg", "updateEgg"} /\ admin.pc = "done" /\ admin.res # "500"
     /\ (admin.egg.uuid = "-" \/ ~admin.egg.name \/ ~admin.egg.image))
    => /\ admin.res \in {"400", "404"}
       /\ <<eggs, eggFiles>> = admin.before
\* a placeholder gives way to its value, once; any other token stays
Substitute(token, config) ==
  CASE token \in {Env(v) : v \in EggVars} ->
         ValueOf(config, CHOOSE v \in EggVars : token = Env(v))
    [] token \in {Direct(v) : v \in EggVars} ->
         config.variables[CHOOSE v \in EggVars : token = Direct(v)]
    [] token = PortTok -> << <<"25565">> >>
    [] token = MemTok  -> << <<"1024">> >>
    [] token = JarTok  -> << <<"server.jar">> >>
    [] OTHER -> <<token>>

RECURSIVE SinglePass(_, _)
SinglePass(template, config) ==
  IF template = <<>> THEN <<>>
  ELSE Substitute(Head(template), config) \o SinglePass(Tail(template), config)

\* C27: template expansion is literal and single-pass: the result is the
\* template with each placeholder replaced once by its value, the value's own
\* text left as it is, whatever the order of the variables.
ExpansionIsSinglePass ==
  (probe.fn = "processVariables" /\ probe.done)
    => probe.result = SinglePass(probe.template, probe.config)
\* C28: the cpu and memory percentages computed from a sample are integers
\* from 0 to 100, also when the cpu counter went backwards or the usage is
\* above the limit.
PercentagesInRange ==
  (probe.fn = "processContainerStats" /\ probe.done)
    => probe.result.cpu \in 0..100 /\ probe.result.memory \in 0..100
\* a regular log file older than the retention period is at place f of the
\* s-th entry of the logs directory
OldLogFile(s, f) ==
  /\ s <= Len(logs) /\ f <= Len(logs[s].files)
  /\ logs[s].files[f].kind = "file"
  /\ logs[s].files[f].age > RetentionDays
  /\ logs[s].files[f].there

\* C29: every log file older than the retention period is eventually
\* deleted by the sweep, whatever else the logs directory holds.
OldLogsEventuallyDeleted ==
  \A s \in 1..MaxLogDirs, f \in 1..MaxLogFiles :
    OldLogFile(s, f) ~> ~OldLogFile(s, f)
\* the command begins with `^`: it names a signal
Caret(command) == command \in {"^C"}

\* C30: a stop command that begins with `^` is never written as text to the
\* standard input of the instance's server; only the other stop commands are.
CaretStopNotWritten ==
  \A i \in Ids : \A text \in stdin[i] : ~Caret(text)
\* C31: a start is never blocked by a leftover container: whenever a start
\* request, its image at hand, has asked the engine to create the container,
\* the engine has created it (a container of the same name was removed first).
LeftoverNeverBlocksStart ==
  \A r \in Reqs :
    (reqs[r].op = "start" /\ reqs[r].pc = "st3") => reqs[r].ok
\* C32: a sampling error is swallowed.  The step that meets it leaves the
\* stats cache as it was and the loop where it was, ready for the next entry;
\* and a tick ends only when every registered instance has been visited, so
\* each of them was sampled, and published unless its own sample failed.
SamplingErrorSwallowed ==
  [][/\ (ticker.pc = "sampled" /\ ~ticker.ok /\ ticker' # ticker)
        => /\ serverStats' = serverStats
           /\ ticker'.pc = "idle"
           /\ ticker'.seen = ticker.seen
     /\ (ticker.pc = "sampled" /\ ticker.ok /\ ticker' # ticker)
        => serverStats'[ticker.id]
     /\ (ticker.seen # <<>> /\ ticker'.seen = <<>>)
        => \A i \in TickIds : containers[i] # NoC => i \in Range(ticker.seen)]_vars

\* s1's sample failed in this tick, its cache entry is as before, and s2
\* was sampled and published after it
SamplingErrorSwallowedWitness ==
  /\ ticker.pc = "idle"
  /\ ticker.seen = <<"s1", "s2">>
  /\ ticker.failed = {"s1"}
  /\ serverStats = [i \in TickIds |-> i = "s2"]
\* the chunk numbers of a sequence of records go up
InOrder(records) ==
  \A a, b \in DOMAIN records : a < b => records[a] < records[b]

\* C33: the records of an instance are published in the order in which the
\* engine delivered their chunks, and the lines of its log file are in that
\* same order.
LogOrderPreserved == InOrder(stream.out) /\ InOrder(stream.file)
\* the line has one of the words, in small letters or in capitals
Has(line, words) ==
  \E word \in words : includes(toLowerCase(line), word)

\* C34: the severity of a line is error if it has error, exception or fatal;
\* otherwise warning if it has warn or warning; otherwise debug if it has
\* debug; otherwise info.
SeverityPrecedence ==
  (probe.fn = "detectLogLevel" /\ probe.done)
    => probe.level =
         IF Has(probe.log, {"error", "exception", "fatal"}) THEN "error"
         ELSE IF Has(probe.log, {"warn", "warning"}) THEN "warning"
         ELSE IF Has(probe.log, {"debug"}) THEN "debug"
         ELSE "info"
\* the step publishes this server-status for the instance
StatusPublished(i, status) ==
  /\ Len(published'[i]) = Len(published[i]) + 1
  /\ published'[i][Len(published'[i])].status = status

\* C35: `online` is published only for an instance that has a registered
\* container at the moment of the publication.
OnlineOnlyWhenRegistered ==
  [][\A i \in Ids : StatusPublished(i, "online") => containers[i] # NoC]_vars
\* C36: `offline` is never published for an instance that, at the moment of
\* the publication, has a registered container running.
OfflineOnlyWhenDown ==
  [][\A i \in Ids :
       StatusPublished(i, "offline")
         => ~(containers'[i] # NoC /\ engine'[containers'[i]].st = "running")]_vars
\* C37: the stats cache holds an entry only for instances that have a
\* registered container.
StatsOnlyForRegistered ==
  \A i \in Ids : serverStats[i] => containers[i] # NoC
\* a stop of the instance is between its engine stop, which succeeded, and
\* the removal of the container
Stopping(i) ==
  \E r \in Reqs : /\ reqs[r].id = i
                   /\ reqs[r].op = "stop"
                   /\ reqs[r].pc = "sp4" /\ reqs[r].ok
                   /\ containers[i] = reqs[r].c

\* C38: a reconciler tick that runs while a stop of the instance is under way
\* neither evicts the instance nor publishes the unexpected-exit warning.
ReconcilerSparesStopping ==
  [][\A i \in Ids :
       (Stopping(i) /\ recon.pc = "inspected" /\ recon.id = i /\ recon' # recon)
         => /\ containers'[i] = containers[i]
            /\ serverLog'[i] = serverLog[i]
            /\ published'[i] = published[i]]_vars
\* C39: a stop that has published `stopping` is followed by a publication of
\* `offline` or `error`: the instance does not keep `stopping` as its last
\* published status.
StoppingEnds ==
  \A i \in Ids : (State(i) = "stopping") ~> (State(i) \in {"offline", "error"})
\* the engine, as far as a request of the daemon can change it
EngineCalled == engine' # engine \/ nextCid' # nextCid

\* C40: a stop or kill request that arrives for an instance with no
\* registered container is answered with an error at once; it makes no engine
\* call, publishes no server-status and no server-log, and leaves the registry
\* and the stats cache as they were.
StopKillRefusedCleanly ==
  [][\A r \in Reqs :
       (/\ reqs[r].pc = "idle" /\ reqs'[r].pc # "idle"
        /\ reqs'[r].op \in {"stop", "kill"}
        /\ containers[reqs'[r].id] = NoC)
         => /\ reqs'[r].pc = "done" /\ reqs'[r].res = "400"
            /\ ~EngineCalled
            /\ published' = published /\ serverLog' = serverLog
            /\ containers' = containers /\ serverStats' = serverStats
            /\ stdin' = stdin /\ timers' = timers]_vars

\* a stop and a kill have been refused for want of a registered container
StopKillRefusedCleanlyWitness ==
  /\ \E r \in Reqs : reqs[r].op = "stop" /\ reqs[r].pc = "done" /\ reqs[r].res = "400"
  /\ \E r \in Reqs : reqs[r].op = "kill" /\ reqs[r].pc = "done" /\ reqs[r].res = "400"
  /\ \A i \in Ids : containers[i] = NoC
====
